---- MODULE Spec2Model ----
(***************************************************************************)
(* State-machine model of the media resolution pipeline:                  *)
(*   ConfigManager   (src/config_manager.py)   permission document         *)
(*   FailureTracker  (src/failure_tracker.py)  per-scope circuit breaker   *)
(*   CacheManager    (src/cache_manager.py)    TTL cache, memory + files   *)
(*   KeywordRegistry (src/keyword_registry.py) keyword -> API matching     *)
(*   get_media       (src/mcp_server.py, src/main.py) the resolver         *)
(*                                                                         *)
(* Text is modelled as follows.  Platform names, API ids, group ids and    *)
(* media types are strings.  A query or a keyword is a sequence of code    *)
(* points, each code point named by a string ("a", "/", "U4E2D" for a CJK  *)
(* ideograph), so that len(), strip(), lower(), the tokenizer's regular    *)
(* expression and the file-name sanitizer work on characters.              *)
(* Python's None is the string None below; a dict is a function whose      *)
(* DOMAIN is the set of its keys; a list is a sequence.                    *)
(***************************************************************************)
EXTENDS Integers, Sequences, FiniteSets, TLC

VARIABLES
    config,             \* ConfigManager._config, the in-memory document
    disk,               \* the persisted config.json: [kind, doc]
    failure_count,      \* FailureTracker._failure_count : key -> count
    cache,              \* CacheManager._cache : key -> entry
    files,              \* the cache directory : path -> file content
    now,                \* time.time()
    platform_apis,      \* KeywordRegistry._platform_apis, in insertion order
    all_keywords,       \* KeywordRegistry._all_keywords
    similarity_threshold, \* KeywordRegistry.similarity_threshold, <<num, den>>
    pending,            \* get_media calls suspended at `await search_media`
    threads,            \* per thread: the call it is in, its position, its locks
    last                \* the last completed call: [op, args, ret]

vars == <<config, disk, failure_count, cache, files, now,
          platform_apis, all_keywords, similarity_threshold, pending, threads, last>>

permVars == <<config, disk, failure_count>>
cacheVars == <<cache, files, now>>
registryVars == <<platform_apis, all_keywords, similarity_threshold>>

(***************************************************************************)
(* Python values                                                           *)
(***************************************************************************)
None == "<None>"

\* bool(s) of an Optional[str]: None and "" are falsy
Truthy(s) == s # None /\ s # ""

EmptyFn == [k \in {} |-> k]

\* dict.get(k, default)
Get(d, k, default) == IF k \in DOMAIN d THEN d[k] ELSE default

\* d[k] = v
Put(d, k, v) == [x \in DOMAIN d \cup {k} |-> IF x = k THEN v ELSE d[x]]

\* del d[k]
Del(d, k) == [x \in DOMAIN d \ {k} |-> d[x]]

\* x in list
Contains(list, x) == \E i \in 1..Len(list) : list[i] = x

\* an Optional[List[str]] argument
Absent == [given |-> FALSE, val |-> <<>>]
Given(list) == [given |-> TRUE, val |-> list]

(***************************************************************************)
(* ConfigManager                                                           *)
(***************************************************************************)
DefaultConfig == [global |-> EmptyFn, groups |-> EmptyFn, platforms |-> EmptyFn]

Persisted(doc) == [kind |-> "ok", doc |-> doc]

\* the file as _load_config finds it: a JSON document, absent, or not JSON
Unreadable(kind) == [kind |-> kind, doc |-> DefaultConfig]

\* mutant: a missing or malformed file leaves a platform configured
LoadedConfigKeepsPlatform(dsk) ==
    IF dsk.kind = "ok" THEN dsk.doc
    ELSE [DefaultConfig EXCEPT !.platforms = [x \in {"p"} |-> [api_key |-> "k"]]]

\* _load_config: the document read, or the default when missing/malformed
LoadedConfig(dsk) == IF dsk.kind = "ok" THEN dsk.doc ELSE DefaultConfig

\* _load_config's write-back of the default document
DiskAfterLoad(dsk) == IF dsk.kind = "ok" THEN dsk ELSE Persisted(DefaultConfig)

get_group_config(cfg, group_id) ==
    Get(Get(cfg, "groups", EmptyFn), group_id, EmptyFn)

get_platform_config(cfg, platform) ==
    Get(Get(cfg, "platforms", EmptyFn), platform, EmptyFn)

\* mutant: a platform without a configuration entry counts as enabled
is_platform_enabled_unconfigured(cfg, group_id, platform) ==
    LET global_disabled ==
            Get(Get(cfg, "global", EmptyFn), "disabled_platforms", <<>>)
        group_disabled ==
            Get(Get(Get(cfg, "groups", EmptyFn), group_id, EmptyFn),
                "disabled_platforms", <<>>)
    IN  IF Contains(global_disabled, platform) THEN FALSE
        ELSE IF Truthy(group_id) /\ Contains(group_disabled, platform) THEN FALSE
        ELSE TRUE

is_platform_enabled(cfg, group_id, platform) ==
    LET global_disabled ==
            Get(Get(cfg, "global", EmptyFn), "disabled_platforms", <<>>)
        group_disabled ==
            Get(get_group_config(cfg, group_id), "disabled_platforms", <<>>)
    IN  IF Contains(global_disabled, platform) THEN FALSE
        ELSE IF Truthy(group_id) /\ Contains(group_disabled, platform) THEN FALSE
        ELSE IF platform \notin DOMAIN Get(cfg, "platforms", EmptyFn) THEN FALSE
        ELSE TRUE

ApiKey(platform, api_id) == platform \o ":" \o api_id

\* mutant: the API check without the platform check in front
is_api_enabled_alone(cfg, group_id, platform, api_id) ==
    LET api_key == platform \o ":" \o api_id
        global_disabled_apis ==
            Get(Get(cfg, "global", EmptyFn), "disabled_apis", <<>>)
        group_disabled_apis ==
            Get(Get(Get(cfg, "groups", EmptyFn), group_id, EmptyFn),
                "disabled_apis", <<>>)
    IN  IF Contains(global_disabled_apis, api_key) THEN FALSE
        ELSE IF Truthy(group_id) /\ Contains(group_disabled_apis, api_key) THEN FALSE
        ELSE TRUE

is_api_enabled(cfg, group_id, platform, api_id) ==
    LET api_key == ApiKey(platform, api_id)
        global_disabled_apis ==
            Get(Get(cfg, "global", EmptyFn), "disabled_apis", <<>>)
        group_disabled_apis ==
            Get(get_group_config(cfg, group_id), "disabled_apis", <<>>)
    IN  IF ~is_platform_enabled(cfg, group_id, platform) THEN FALSE
        ELSE IF Contains(global_disabled_apis, api_key) THEN FALSE
        ELSE IF Truthy(group_id) /\ Contains(group_disabled_apis, api_key) THEN FALSE
        ELSE TRUE

\* the platform names returned (a list in dict order; only membership and
\* emptiness are read by the callers, so the order is not modelled)
get_available_platforms(cfg, group_id) ==
    {p \in DOMAIN Get(cfg, "platforms", EmptyFn) :
        is_platform_enabled(cfg, group_id, p)}

\* mutant: the passed lists are appended to the lists of the group
GroupConfigMerged(cfg, group_id, disabled_platforms, disabled_apis) ==
    LET c1 == IF "groups" \in DOMAIN cfg THEN cfg ELSE Put(cfg, "groups", EmptyFn)
        g0 == Get(c1["groups"], group_id, EmptyFn)
        g1 == IF disabled_platforms.given
              THEN Put(g0, "disabled_platforms",
                       Get(g0, "disabled_platforms", <<>>) \o disabled_platforms.val)
              ELSE g0
        g2 == IF disabled_apis.given
              THEN Put(g1, "disabled_apis",
                       Get(g1, "disabled_apis", <<>>) \o disabled_apis.val)
              ELSE g1
    IN  Put(c1, "groups", Put(c1["groups"], group_id, g2))

\* mutant: the passed sub-fields replace those of every group of the document
GroupConfigUpdatedEverywhere(cfg, group_id, disabled_platforms, disabled_apis) ==
    LET c1 == IF "groups" \in DOMAIN cfg THEN cfg ELSE Put(cfg, "groups", EmptyFn)
        Set(g0) ==
            LET g1 == IF disabled_platforms.given
                      THEN Put(g0, "disabled_platforms", disabled_platforms.val) ELSE g0
            IN  IF disabled_apis.given
                THEN Put(g1, "disabled_apis", disabled_apis.val) ELSE g1
    IN  Put(c1, "groups",
            [g \in DOMAIN c1["groups"] \cup {group_id} |->
                Set(Get(c1["groups"], g, EmptyFn))])

\* update_group_config up to the save: the document with the passed
\* sub-fields of the group replaced
GroupConfigUpdated(cfg, group_id, disabled_platforms, disabled_apis) ==
    LET c1 == IF "groups" \in DOMAIN cfg THEN cfg ELSE Put(cfg, "groups", EmptyFn)
        g0 == Get(c1["groups"], group_id, EmptyFn)
        g1 == IF disabled_platforms.given
              THEN Put(g0, "disabled_platforms", disabled_platforms.val) ELSE g0
        g2 == IF disabled_apis.given
              THEN Put(g1, "disabled_apis", disabled_apis.val) ELSE g1
    IN  Put(c1, "groups", Put(c1["groups"], group_id, g2))

\* mutant: the file is written before the sub-fields are set, and not reloaded
update_group_config_saves_first(cfg, group_id, disabled_platforms, disabled_apis) ==
    <<GroupConfigUpdated(cfg, group_id, disabled_platforms, disabled_apis),
      Persisted(cfg)>>

\* update_group_config: mutate, _save_config, reload_config.
\* Returns the new <<config, disk>>.
update_group_config(cfg, group_id, disabled_platforms, disabled_apis) ==
    LET doc == GroupConfigUpdated(cfg, group_id, disabled_platforms, disabled_apis)
        saved == Persisted(doc)
    IN  <<LoadedConfig(saved), DiskAfterLoad(saved)>>

\* update_platform_config(platform, **kwargs): the new <<config, disk>>
update_platform_config(cfg, platform, kwargs) ==
    LET c1 == IF "platforms" \in DOMAIN cfg THEN cfg
              ELSE Put(cfg, "platforms", EmptyFn)
        old == Get(c1["platforms"], platform, EmptyFn)
        new == [k \in DOMAIN old \cup DOMAIN kwargs |->
                    IF k \in DOMAIN kwargs THEN kwargs[k] ELSE old[k]]
        saved == Persisted(Put(c1, "platforms", Put(c1["platforms"], platform, new)))
    IN  <<LoadedConfig(saved), DiskAfterLoad(saved)>>

(***************************************************************************)
(* FailureTracker                                                          *)
(***************************************************************************)
failure_threshold == 3

_get_failure_key(platform, api_name, group_id) ==
    IF Truthy(group_id)
    THEN platform \o ":" \o api_name \o ":" \o group_id
    ELSE platform \o ":" \o api_name \o ":global"

get_failure_count(fc, platform, api_name, group_id) ==
    Get(fc, _get_failure_key(platform, api_name, group_id), 0)

\* mutant: the threshold test off by one
ReachedThresholdLate(count) == count > failure_threshold

\* record_failure's test `count >= self.failure_threshold`
ReachedThreshold(count) == count >= failure_threshold

\* mutant: the global scope auto-disables too
AutoDisableAppliesAlways(group_id) == TRUE

\* _auto_disable's first test: `if not group_id: return`
AutoDisableApplies(group_id) == Truthy(group_id)

\* mutant: every failing API disables the whole platform
DisablesPlatformAlways(api_name) == TRUE

\* _auto_disable's branch test: "search" disables the whole platform
DisablesPlatform(api_name) == api_name = "search"

\* mutant: the "search" branch leaves the group's list as it is
DisabledPlatformListKept(cfg, platform, group_id) == Absent

\* _auto_disable, "search" branch: the group's disabled_platforms list with
\* the platform appended (not given when it is already there)
DisabledPlatformList(cfg, platform, group_id) ==
    LET disabled_platforms ==
            Get(get_group_config(cfg, group_id), "disabled_platforms", <<>>)
    IN  IF Contains(disabled_platforms, platform) THEN Absent
        ELSE Given(Append(disabled_platforms, platform))

\* _auto_disable, other branch: the group's disabled_apis list with
\* "platform:api" appended (not given when it is already there)
DisabledApiList(cfg, platform, api_name, group_id) ==
    LET disabled_apis == Get(get_group_config(cfg, group_id), "disabled_apis", <<>>)
        api_key == ApiKey(platform, api_name)
    IN  IF Contains(disabled_apis, api_key) THEN Absent
        ELSE Given(Append(disabled_apis, api_key))

\* _auto_disable: the new <<config, disk>>
_auto_disable(cfg, dsk, platform, api_name, group_id) ==
    IF ~AutoDisableApplies(group_id) THEN <<cfg, dsk>>
    ELSE IF DisablesPlatform(api_name)
    THEN LET dp == DisabledPlatformList(cfg, platform, group_id)
         IN  IF dp.given THEN update_group_config(cfg, group_id, dp, Absent)
             ELSE <<cfg, dsk>>
    ELSE LET da == DisabledApiList(cfg, platform, api_name, group_id)
         IN  IF da.given THEN update_group_config(cfg, group_id, Absent, da)
             ELSE <<cfg, dsk>>

\* mutant: the counter starts again once the threshold is reached
record_failure_restarts(fc, cfg, dsk, platform, api_name, group_id) ==
    LET key == _get_failure_key(platform, api_name, group_id)
        count == Get(fc, key, 0) + 1
        cd == IF ReachedThreshold(count)
              THEN _auto_disable(cfg, dsk, platform, api_name, group_id)
              ELSE <<cfg, dsk>>
    IN  <<IF ReachedThreshold(count) THEN Del(fc, key) ELSE Put(fc, key, count),
          cd[1], cd[2]>>

\* record_failure: the new <<failure_count, config, disk>>
record_failure(fc, cfg, dsk, platform, api_name, group_id) ==
    LET key == _get_failure_key(platform, api_name, group_id)
        fc1 == Put(fc, key, Get(fc, key, 0) + 1)
        count == fc1[key]
        cd == IF ReachedThreshold(count)
              THEN _auto_disable(cfg, dsk, platform, api_name, group_id)
              ELSE <<cfg, dsk>>
    IN  <<fc1, cd[1], cd[2]>>

\* mutant: a success takes one failure off the counter
reset_failure_decrement(fc, platform, api_name, group_id) ==
    LET key == _get_failure_key(platform, api_name, group_id)
    IN  IF key \in DOMAIN fc /\ fc[key] > 1 THEN Put(fc, key, fc[key] - 1)
        ELSE IF key \in DOMAIN fc THEN Del(fc, key) ELSE fc

\* reset_failure: the new failure_count
reset_failure(fc, platform, api_name, group_id) ==
    LET key == _get_failure_key(platform, api_name, group_id)
    IN  IF key \in DOMAIN fc THEN Del(fc, key) ELSE fc

(***************************************************************************)
(* Universe of the permission and failure-tracking state machines          *)
(***************************************************************************)
Platforms == {"p", "q"}
ApiIds == {"search", "xyz"}
GroupIds == {"g1", "g2"}
Scopes == {None} \cup GroupIds

\* the (platform, api, scope) triples whose calls fail or succeed
FailTriples ==
    ({"p"} \X ApiIds \X Scopes) \cup {<<"q", "search", "g1">>}

\* bound: failures outstanding over all counters
MaxFailures == 4

RECURSIVE SumOf(_)
SumOf(fc) ==
    IF DOMAIN fc = {} THEN 0
    ELSE LET k == CHOOSE x \in DOMAIN fc : TRUE IN fc[k] + SumOf(Del(fc, k))

PlatformBlob == [api_key |-> "k"]

\* documents the store is constructed over
InitDocs ==
    { [global |-> EmptyFn, groups |-> EmptyFn,
       platforms |-> [x \in {"p", "q"} |-> PlatformBlob]],
      [global |-> [disabled_platforms |-> <<"q">>, disabled_apis |-> <<"p:xyz">>],
       groups |-> [g1 |-> [disabled_apis |-> <<"q:search">>],
                   g2 |-> [disabled_platforms |-> <<"p">>]],
       platforms |-> [x \in {"p", "q"} |-> PlatformBlob]] }

InitIdleCache == cache = EmptyFn /\ files = EmptyFn /\ now = 0
InitIdleRegistry ==
    platform_apis = EmptyFn /\ all_keywords = {} /\ similarity_threshold = <<3, 10>>
\* the threads that call into the components
Threads == {"t1", "t2"}

\* a thread outside every call; ref is the list object _auto_disable holds
\* (live: it is still part of the in-memory document)
IdleFrame ==
    [pc |-> "idle", op |-> "none", platform |-> "", api_name |-> "",
     group_id |-> "", held |-> <<>>, ref |-> [live |-> FALSE, val |-> <<>>],
     dp |-> Absent, da |-> Absent, reached |-> FALSE, ret |-> "none"]

InitIdleThreads == threads = [t \in Threads |-> IdleFrame]
InitIdleLast == last = [op |-> "init"] /\ pending = {} /\ InitIdleThreads
InitIdlePerm ==
    config = DefaultConfig /\ disk = Persisted(DefaultConfig) /\ failure_count = EmptyFn

(***************************************************************************)
(* SpecTracker: the Failure Tracker driving the Permission Store           *)
(***************************************************************************)
InitTracker ==
    /\ \E d \in InitDocs : config = d /\ disk = Persisted(d)
    /\ failure_count = EmptyFn
    /\ InitIdleCache /\ InitIdleRegistry /\ InitIdleLast

RecordFailure(platform, api_name, group_id) ==
    /\ SumOf(failure_count) < MaxFailures
    /\ LET r == record_failure(failure_count, config, disk,
                               platform, api_name, group_id)
       IN  /\ failure_count' = r[1]
           /\ config' = r[2]
           /\ disk' = r[3]
    /\ UNCHANGED <<threads, pending, cacheVars, registryVars, last>>

ResetFailure(platform, api_name, group_id) ==
    /\ failure_count' = reset_failure(failure_count, platform, api_name, group_id)
    /\ UNCHANGED <<threads, pending, config, disk, cacheVars, registryVars, last>>

UpdateGroupConfig(group_id, disabled_platforms, disabled_apis) ==
    /\ LET r == update_group_config(config, group_id,
                                    disabled_platforms, disabled_apis)
       IN  config' = r[1] /\ disk' = r[2]
    /\ UNCHANGED <<threads, pending, failure_count, cacheVars, registryVars, last>>

\* an administrator re-enabling what was disabled for g1
ReEnable ==
    \/ UpdateGroupConfig("g1", Given(<<>>), Absent)
    \/ UpdateGroupConfig("g1", Absent, Given(<<>>))

NextTracker ==
    \/ \E t \in FailTriples : RecordFailure(t[1], t[2], t[3])
    \/ \E t \in FailTriples : ResetFailure(t[1], t[2], t[3])
    \/ ReEnable

SpecTracker == InitTracker /\ [][NextTracker]_vars

(***************************************************************************)
(* Properties of the Failure Tracker (checked under SpecTracker)           *)
(***************************************************************************)
GroupDisabledPlatforms(cfg, g) ==
    Get(get_group_config(cfg, g), "disabled_platforms", <<>>)
GroupDisabledApis(cfg, g) ==
    Get(get_group_config(cfg, g), "disabled_apis", <<>>)

\* everything of the document other than group g's disabled_apis list
SameExceptGroupApis(old, new, g) ==
    /\ Get(new, "global", EmptyFn) = Get(old, "global", EmptyFn)
    /\ Get(new, "platforms", EmptyFn) = Get(old, "platforms", EmptyFn)
    /\ GroupDisabledPlatforms(new, g) = GroupDisabledPlatforms(old, g)
    /\ \A h \in GroupIds \ {g} : get_group_config(new, h) = get_group_config(old, h)

\* C3: circuit breaker threshold.  A recordFailure(p, "search", S) for a
\* non-empty scope S adds one to the counter; when the counter reaches the
\* threshold p is in S's disabled-platforms list afterwards; while it is
\* below the threshold the call leaves the document (in memory and persisted)
\* as it was; recordSuccess puts the counter back to 0, so the failures that
\* follow a reset at count 2 do not disable p.
C3_CircuitBreakerThreshold ==
    [][\A p \in Platforms, g \in GroupIds :
         /\ RecordFailure(p, "search", g) =>
              LET n == get_failure_count(failure_count', p, "search", g)
              IN  /\ n = get_failure_count(failure_count, p, "search", g) + 1
                  /\ n >= failure_threshold =>
                         Contains(GroupDisabledPlatforms(config', g), p)
                  /\ n < failure_threshold => config' = config /\ disk' = disk
         /\ ResetFailure(p, "search", g) =>
              get_failure_count(failure_count', p, "search", g) = 0
      ]_vars

\* C3 witness: the third consecutive failure of p's "search" for g1 has
\* put p into g1's disabled-platforms list
C3_Witness ==
    /\ get_failure_count(failure_count, "p", "search", "g1") = failure_threshold
    /\ Contains(GroupDisabledPlatforms(config, "g1"), "p")

\* C4: non-search API disable scope.  When recordFailure(p, a, S), a other
\* than "search" and S non-empty, reaches the threshold, the only change to
\* the document is "p:a" appended to S's disabled-APIs list (unless already
\* there); afterwards isApiEnabled(S, p, a) is false, isPlatformEnabled(S, p)
\* is what it was, and isApiEnabled(S, p, other) is what it was for every
\* other API of p.
C4_NonSearchDisableScope ==
    [][\A p \in Platforms, g \in GroupIds, a \in ApiIds \ {"search"} :
         ( /\ RecordFailure(p, a, g)
           /\ get_failure_count(failure_count', p, a, g) >= failure_threshold )
         => /\ SameExceptGroupApis(config, config', g)
            /\ GroupDisabledApis(config', g) \in
                 { GroupDisabledApis(config, g),
                   Append(GroupDisabledApis(config, g), ApiKey(p, a)) }
            /\ Contains(GroupDisabledApis(config', g), ApiKey(p, a))
            /\ ~is_api_enabled(config', g, p, a)
            /\ is_platform_enabled(config', g, p) = is_platform_enabled(config, g, p)
            /\ \A other \in ApiIds \ {a} :
                 is_api_enabled(config', g, p, other)
                     = is_api_enabled(config, g, p, other)
      ]_vars

\* C4 witness: "p:xyz" was auto-disabled for g1 while p and its "search"
\* stay enabled for g1
C4_Witness ==
    /\ get_failure_count(failure_count, "p", "xyz", "g1") >= failure_threshold
    /\ Contains(GroupDisabledApis(config, "g1"), "p:xyz")
    /\ is_platform_enabled(config, "g1", "p")
    /\ is_api_enabled(config, "g1", "p", "search")
    /\ ~is_api_enabled(config, "g1", "p", "xyz")

\* C5: global failures never auto-disable.  A recordFailure(p, a) with the
\* scope absent adds one to the global counter of (p, a) and leaves the
\* document, in memory and persisted, untouched, whatever the count.
C5_GlobalNeverAutoDisables ==
    [][\A p \in Platforms, a \in ApiIds :
         RecordFailure(p, a, None) =>
            /\ config' = config
            /\ disk' = disk
            /\ get_failure_count(failure_count', p, a, None)
                 = get_failure_count(failure_count, p, a, None) + 1
      ]_vars

\* C5 witness: the global counter of p's "search" is beyond the threshold
\* and p is still enabled
C5_Witness ==
    /\ get_failure_count(failure_count, "p", "search", None) > failure_threshold
    /\ is_platform_enabled(config, None, "p")

(***************************************************************************)
(* SpecStore: the Permission Store under administrative updates, external  *)
(* edits of config.json and reloads                                        *)
(***************************************************************************)
StoreGlobals ==
    { EmptyFn,
      [disabled_platforms |-> <<"p">>],
      [disabled_platforms |-> <<"q">>, disabled_apis |-> <<"q:search">>],
      [disabled_apis |-> <<"p:xyz">>] }

StoreGroups ==
    { EmptyFn,
      [g1 |-> [disabled_platforms |-> <<"p">>]],
      [g1 |-> [disabled_apis |-> <<"p:xyz">>],
       g2 |-> [disabled_platforms |-> <<"q">>, disabled_apis |-> <<"p:search">>]] }

StorePlatforms ==
    { [x \in {"p", "q"} |-> PlatformBlob], [x \in {"p"} |-> PlatformBlob] }

StoreDocs ==
    { [global |-> gl, groups |-> gr, platforms |-> pl] :
        gl \in StoreGlobals, gr \in StoreGroups, pl \in StorePlatforms }

\* what an external editor leaves in config.json
EditedFiles ==
    { Unreadable("malformed"), Unreadable("missing"),
      Persisted([global |-> [disabled_platforms |-> <<"p">>],
                 platforms |-> [x \in {"p", "q"} |-> PlatformBlob]]) }

\* lists an administrator passes to update_group_config
AdminPlatformLists == {Absent, Given(<<>>), Given(<<"q">>)}
AdminApiLists == {Absent, Given(<<>>), Given(<<"q:xyz">>)}

\* platform names asked about: the configurable ones and one never configured
AskedPlatforms == Platforms \cup {"r"}

InitStore ==
    /\ \E d \in StoreDocs : config = d /\ disk = Persisted(d)
    /\ failure_count = EmptyFn
    /\ InitIdleCache /\ InitIdleRegistry /\ InitIdleLast

UpdatePlatformConfig(platform, kwargs) ==
    /\ LET r == update_platform_config(config, platform, kwargs)
       IN  config' = r[1] /\ disk' = r[2]
    /\ UNCHANGED <<threads, pending, failure_count, cacheVars, registryVars, last>>

\* reload_config (the file watcher's callback)
ReloadConfig ==
    /\ config' = LoadedConfig(disk)
    /\ disk' = DiskAfterLoad(disk)
    /\ UNCHANGED <<threads, pending, failure_count, cacheVars, registryVars, last>>

\* config.json rewritten from outside the process
ExternalEdit(file) ==
    /\ disk' = file
    /\ UNCHANGED <<threads, pending, config, failure_count, cacheVars, registryVars, last>>

NextStore ==
    \/ \E g \in GroupIds, dp \in AdminPlatformLists, da \in AdminApiLists :
           UpdateGroupConfig(g, dp, da)
    \/ \E p \in Platforms : UpdatePlatformConfig(p, [api_key |-> "k2"])
    \/ ReloadConfig
    \/ \E f \in EditedFiles : ExternalEdit(f)

SpecStore == InitStore /\ [][NextStore]_vars

(***************************************************************************)
(* Properties of the Permission Store (checked under SpecStore)            *)
(***************************************************************************)
Elements(list) == {list[i] : i \in 1..Len(list)}
GlobalDisabledPlatformSet(cfg) ==
    Elements(Get(Get(cfg, "global", EmptyFn), "disabled_platforms", <<>>))
GlobalDisabledApiSet(cfg) ==
    Elements(Get(Get(cfg, "global", EmptyFn), "disabled_apis", <<>>))
ScopeDisabledPlatformSet(cfg, g) ==
    Elements(Get(Get(Get(cfg, "groups", EmptyFn), g, EmptyFn),
                 "disabled_platforms", <<>>))
ScopeDisabledApiSet(cfg, g) ==
    Elements(Get(Get(Get(cfg, "groups", EmptyFn), g, EmptyFn),
                 "disabled_apis", <<>>))
ConfiguredPlatforms(cfg) == DOMAIN Get(cfg, "platforms", EmptyFn)

\* C6: cascading platform permission.  isPlatformEnabled(scope, p) is true
\* iff p is not globally disabled, and the scope is absent or p is not in
\* the scope's disabled set, and p has a configuration entry.  So a globally
\* disabled p is disabled for every scope, and a configured p disabled only
\* in scope S is disabled for S and enabled for any other scope.
C6_CascadingPlatformPermission ==
    \A p \in AskedPlatforms :
        /\ \A s \in Scopes :
             is_platform_enabled(config, s, p) <=>
                /\ p \notin GlobalDisabledPlatformSet(config)
                /\ (s = None \/ p \notin ScopeDisabledPlatformSet(config, s))
                /\ p \in ConfiguredPlatforms(config)
        /\ p \in GlobalDisabledPlatformSet(config) =>
             \A s \in Scopes : ~is_platform_enabled(config, s, p)
        /\ \A s \in GroupIds : \A t \in Scopes \ {s} :
             ( /\ p \in ConfiguredPlatforms(config)
               /\ p \notin GlobalDisabledPlatformSet(config)
               /\ p \in ScopeDisabledPlatformSet(config, s)
               /\ (t = None \/ p \notin ScopeDisabledPlatformSet(config, t)) )
             => ~is_platform_enabled(config, s, p) /\ is_platform_enabled(config, t, p)

\* C6 witness: after an administrative update, p is disabled for g1 only
\* (enabled for g2 and for the absent scope), q is globally disabled though
\* in no scope's list, and r has no configuration entry
C6_Witness ==
    /\ disk = Persisted(config)
    /\ GroupDisabledPlatforms(config, "g2") = <<"q">>
    /\ "p" \in ScopeDisabledPlatformSet(config, "g1")
    /\ ~is_platform_enabled(config, "g1", "p")
    /\ is_platform_enabled(config, "g2", "p")
    /\ is_platform_enabled(config, None, "p")
    /\ "p" \notin GlobalDisabledPlatformSet(config)
    /\ ~is_platform_enabled(config, "g1", "r")

\* C7: isApiEnabled(scope, p, a) is true iff isPlatformEnabled(scope, p), and
\* "p:a" is not globally disabled, and the scope is absent or "p:a" is not in
\* the scope's disabled-APIs set; so a platform disabled for a scope has no
\* enabled API for that scope.
C7_ApiPermission ==
    \A p \in AskedPlatforms, a \in ApiIds, s \in Scopes :
        /\ is_api_enabled(config, s, p, a) <=>
              /\ is_platform_enabled(config, s, p)
              /\ ApiKey(p, a) \notin GlobalDisabledApiSet(config)
              /\ (s = None \/ ApiKey(p, a) \notin ScopeDisabledApiSet(config, s))
        /\ ~is_platform_enabled(config, s, p) => ~is_api_enabled(config, s, p, a)

\* C7 witness: p is disabled for g1 while none of its APIs is listed as
\* disabled, and q is enabled for g1 with "q:xyz" disabled there
C7_Witness ==
    /\ ~is_platform_enabled(config, "g1", "p")
    /\ \A a \in ApiIds :
          ApiKey("p", a) \notin
              GlobalDisabledApiSet(config) \cup ScopeDisabledApiSet(config, "g1")
    /\ is_platform_enabled(config, "g1", "q")
    /\ "q:xyz" \in ScopeDisabledApiSet(config, "g1")
    /\ ~is_api_enabled(config, "g1", "q", "xyz")
    /\ is_api_enabled(config, "g1", "q", "search")

(***************************************************************************)
(* CacheManager                                                            *)
(***************************************************************************)
default_ttl == 3600

\* the text of a sequence of code points
RECURSIVE Cat(_)
Cat(text) == IF text = <<>> THEN "" ELSE Head(text) \o Cat(Tail(text))

_get_cache_key(query, media_type, platform) ==
    Cat(query) \o ":" \o media_type \o ":" \o platform

InvalidChars == {"<", ">", ":", "\"", "/", "\\", "|", "?", "*"}
MaxFileNameLen == 100

\* hashlib.md5(text).hexdigest(): a name no sanitized text has
Md5Hex(text) == "md5<" \o Cat(text) \o ">"

_sanitize_filename(text) ==
    LET replaced == [i \in 1..Len(text) |->
                        IF text[i] \in InvalidChars THEN "_" ELSE text[i]]
    IN  IF Len(replaced) > MaxFileNameLen THEN Md5Hex(replaced) ELSE Cat(replaced)

_get_cache_file_path(query, media_type, platform) ==
    _sanitize_filename(query) \o "/" \o media_type \o "_" \o platform \o ".json"

\* a cache file that json.load reads, and one it cannot read
JsonFile(entry) == [kind |-> "json", entry |-> entry]
CorruptFile == [kind |-> "corrupt", entry |-> EmptyFn]

\* _save_cache_to_disk: the entry plus the query, written to the key's file
_save_cache_to_disk(f, query, media_type, platform, cache_entry) ==
    Put(f, _get_cache_file_path(query, media_type, platform),
        JsonFile(Put(cache_entry, "query", query)))

\* _delete_cache_file
_delete_cache_file(f, query, media_type, platform) ==
    LET cache_file == _get_cache_file_path(query, media_type, platform)
    IN  IF cache_file \in DOMAIN f THEN Del(f, cache_file) ELSE f

\* mutant: an entry counts as expired at its expiry instant already
IsExpiredEarly(current_time, cache_entry) ==
    current_time >= Get(cache_entry, "expires_at", 0)

\* `current_time > cache_entry.get("expires_at", 0)`
IsExpired(current_time, cache_entry) ==
    current_time > Get(cache_entry, "expires_at", 0)

\* mutant: a file that cannot be parsed is left where it is
has_cache_keeps_unreadable(c, f, t, query, media_type, platform) ==
    LET key == _get_cache_key(query, media_type, platform)
        cache_file == _get_cache_file_path(query, media_type, platform)
    IN  IF key \in DOMAIN c
        THEN IF IsExpired(t, c[key])
             THEN [ret |-> FALSE, cache |-> Del(c, key),
                   files |-> _delete_cache_file(f, query, media_type, platform)]
             ELSE [ret |-> TRUE, cache |-> c, files |-> f]
        ELSE IF cache_file \in DOMAIN f
        THEN IF f[cache_file].kind = "json"
             THEN IF IsExpired(t, f[cache_file].entry)
                  THEN [ret |-> FALSE, cache |-> c,
                        files |-> _delete_cache_file(f, query, media_type, platform)]
                  ELSE [ret |-> TRUE, cache |-> Put(c, key, f[cache_file].entry),
                        files |-> f]
             ELSE [ret |-> FALSE, cache |-> c, files |-> f]
        ELSE [ret |-> FALSE, cache |-> c, files |-> f]

\* has_cache: [ret, cache, files]
has_cache(c, f, t, query, media_type, platform) ==
    LET key == _get_cache_key(query, media_type, platform)
        cache_file == _get_cache_file_path(query, media_type, platform)
    IN  IF key \in DOMAIN c
        THEN IF IsExpired(t, c[key])
             THEN [ret |-> FALSE, cache |-> Del(c, key),
                   files |-> _delete_cache_file(f, query, media_type, platform)]
             ELSE [ret |-> TRUE, cache |-> c, files |-> f]
        ELSE IF cache_file \in DOMAIN f
        THEN IF f[cache_file].kind = "json"
             THEN IF IsExpired(t, f[cache_file].entry)
                  THEN [ret |-> FALSE, cache |-> c,
                        files |-> _delete_cache_file(f, query, media_type, platform)]
                  ELSE [ret |-> TRUE, cache |-> Put(c, key, f[cache_file].entry),
                        files |-> f]
             ELSE [ret |-> FALSE, cache |-> c,
                   files |-> _delete_cache_file(f, query, media_type, platform)]
        ELSE [ret |-> FALSE, cache |-> c, files |-> f]

\* the payload absent: get_cache's None
NoData == [absent |-> TRUE]

\* get_cache: [ret, cache, files]
get_cache(c, f, t, query, media_type, platform) ==
    LET key == _get_cache_key(query, media_type, platform)
        h == has_cache(c, f, t, query, media_type, platform)
    IN  IF ~h.ret THEN [ret |-> NoData, cache |-> h.cache, files |-> h.files]
        ELSE [ret |-> Get(h.cache[key], "data", NoData),
              cache |-> h.cache, files |-> h.files]

\* the ttl argument: None (omitted) or an int
TtlNone == [given |-> FALSE, value |-> 0]
TtlOf(n) == [given |-> TRUE, value |-> n]

\* `ttl = ttl or self.default_ttl`: None and 0 are both falsy
EffectiveTtl(ttl) == IF ~ttl.given \/ ttl.value = 0 THEN default_ttl ELSE ttl.value

\* set_cache: [cache, files]
set_cache(c, f, t, query, media_type, platform, data, ttl) ==
    LET key == _get_cache_key(query, media_type, platform)
        cache_entry == [data |-> data,
                        expires_at |-> t + EffectiveTtl(ttl),
                        created_at |-> t]
    IN  [cache |-> Put(c, key, cache_entry),
         files |-> _save_cache_to_disk(f, query, media_type, platform, cache_entry)]

\* mutant: only the memory is cleaned
clear_expired_memory_only(c, f, t) ==
    [cache |-> [key \in {k \in DOMAIN c : ~IsExpired(t, c[k])} |-> c[key]],
     files |-> f]

\* clear_expired: [cache, files]; the expired entries leave the memory, the
\* files with an expired entry and the unreadable files are deleted
clear_expired(c, f, t) ==
    LET Kept(cache_file) ==
            f[cache_file].kind = "json" /\ ~IsExpired(t, f[cache_file].entry)
    IN  [cache |-> [key \in {k \in DOMAIN c : ~IsExpired(t, c[k])} |-> c[key]],
         files |-> [cache_file \in {x \in DOMAIN f : Kept(x)} |-> f[cache_file]]]

\* _load_cache_from_disk: [cache, files]; the unreadable and the expired
\* files are deleted, every other file's entry is loaded under the key made
\* of its "query" field and of the media type and platform of its name
\* (names: the media type and platform of the file name, by cache file)
_load_cache_from_disk(f, t, names) ==
    LET Kept(cache_file) ==
            f[cache_file].kind = "json" /\ ~IsExpired(t, f[cache_file].entry)
        kept == {x \in DOMAIN f : Kept(x)}
        KeyIn(cache_file) ==
            _get_cache_key(f[cache_file].entry.query,
                           names[cache_file][1], names[cache_file][2])
    IN  [cache |-> [key \in {KeyIn(x) : x \in kept} |->
                       f[CHOOSE x \in kept : KeyIn(x) = key].entry],
         files |-> [cache_file \in kept |-> f[cache_file]]]

(***************************************************************************)
(* SpecCache: the Result Cache under set/has/get/clear and passing time    *)
(***************************************************************************)
QSlash == <<"a", "/", "b">>
QUnder == <<"a", "_", "b">>

\* the (query, media type, platform) keys used
CacheKeys ==
    { <<QSlash, "image", "p">>, <<QUnder, "image", "p">> }

Payloads == { [url |-> "u1", type |-> "image"], [url |-> "u2", type |-> "video"] }

\* the ttl arguments passed to set_cache (None: omitted)
Ttls == {TtlNone, TtlOf(0), TtlOf(1)}

\* the steps by which time advances
Delays == {1, default_ttl}

\* bounds: the clock reads epoch * default_ttl + step, with at most
\* MaxEpochs long waits and MaxSteps short ones in an epoch
MaxSteps == 1
MaxEpochs == 1

KeyOf(k) == _get_cache_key(k[1], k[2], k[3])
PathOf(k) == _get_cache_file_path(k[1], k[2], k[3])

InitCache ==
    /\ cache = EmptyFn /\ files = EmptyFn /\ now = 0
    /\ InitIdlePerm /\ InitIdleRegistry /\ InitIdleLast

\* the key is not in memory and its file cannot be parsed
FileUnreadable(k) ==
    /\ KeyOf(k) \notin DOMAIN cache
    /\ PathOf(k) \in DOMAIN files /\ files[PathOf(k)].kind = "corrupt"

SetCache(k, data, ttl) ==
    /\ LET r == set_cache(cache, files, now, k[1], k[2], k[3], data, ttl)
       IN  cache' = r.cache /\ files' = r.files
    /\ last' = [op |-> "set", key |-> k, data |-> data, ttl |-> ttl]
    /\ UNCHANGED <<threads, pending, now, permVars, registryVars>>

HasCache(k) ==
    /\ LET r == has_cache(cache, files, now, k[1], k[2], k[3])
       IN  /\ cache' = r.cache /\ files' = r.files
           /\ last' = [op |-> "has", key |-> k, ret |-> r.ret,
                        evicted |-> KeyOf(k) \in DOMAIN cache \ DOMAIN r.cache,
                        unreadable |-> FileUnreadable(k)]
    /\ UNCHANGED <<threads, pending, now, permVars, registryVars>>

GetCache(k) ==
    /\ LET r == get_cache(cache, files, now, k[1], k[2], k[3])
       IN  /\ cache' = r.cache /\ files' = r.files
           /\ last' = [op |-> "get", key |-> k, ret |-> r.ret,
                        evicted |-> KeyOf(k) \in DOMAIN cache \ DOMAIN r.cache,
                        unreadable |-> FileUnreadable(k)]
    /\ UNCHANGED <<threads, pending, now, permVars, registryVars>>

\* clear_cache: memory emptied, every query directory removed
ClearCache ==
    /\ cache' = EmptyFn /\ files' = EmptyFn
    /\ last' = [op |-> "clear"]
    /\ UNCHANGED <<threads, pending, now, permVars, registryVars>>

ClearExpired ==
    /\ LET r == clear_expired(cache, files, now)
       IN  cache' = r.cache /\ files' = r.files
    /\ last' = [op |-> "clear_expired"]
    /\ UNCHANGED <<threads, pending, now, permVars, registryVars>>

\* the file of a key damaged or written by something else than set_cache
DamageFile(k) ==
    /\ files' = Put(files, PathOf(k), CorruptFile)
    /\ last' = [op |-> "damage"]
    /\ UNCHANGED <<threads, pending, cache, now, permVars, registryVars>>

\* the media type and platform in the name of each cache file
FileNames == [cache_file \in {PathOf(k) : k \in CacheKeys} |->
                 LET k == CHOOSE x \in CacheKeys : PathOf(x) = cache_file
                 IN  <<k[2], k[3]>>]

\* the process starts again: CacheManager.__init__ loads the cache directory
Restart ==
    /\ LET r == _load_cache_from_disk(files, now, FileNames)
       IN  cache' = r.cache /\ files' = r.files
    /\ last' = [op |-> "restart"]
    /\ UNCHANGED <<threads, pending, now, permVars, registryVars>>

\* time.time() moves on
Advance(d) ==
    /\ d = 1 => now % default_ttl < MaxSteps
    /\ d = default_ttl => now \div default_ttl < MaxEpochs
    /\ now' = now + d
    /\ last' = [op |-> "advance"]
    /\ UNCHANGED <<threads, pending, cache, files, permVars, registryVars>>

NextCache ==
    \/ \E k \in CacheKeys, data \in Payloads, ttl \in Ttls : SetCache(k, data, ttl)
    \/ \E k \in CacheKeys : HasCache(k)
    \/ \E k \in CacheKeys : GetCache(k)
    \/ ClearCache
    \/ ClearExpired
    \/ \E k \in CacheKeys : DamageFile(k)
    \/ Restart
    \/ \E d \in Delays : Advance(d)

SpecCache == InitCache /\ [][NextCache]_vars

(***************************************************************************)
(* Properties of the Result Cache                                          *)
(***************************************************************************)
\* the entry stored for a key: the one in memory, else the one in its file
HasEntry(k) ==
    \/ KeyOf(k) \in DOMAIN cache
    \/ PathOf(k) \in DOMAIN files /\ files[PathOf(k)].kind = "json"

EntryOf(k) ==
    IF KeyOf(k) \in DOMAIN cache THEN cache[KeyOf(k)] ELSE files[PathOf(k)].entry

Unexpired(k) == HasEntry(k) /\ now <= EntryOf(k).expires_at

\* C8: in every state and for every key, has is true exactly when an entry
\* with now <= expiresAt exists, get returns data only from such an entry,
\* and an entry past its expiry is reported absent by has and by get and
\* is gone from memory and from its cache file when they return.
C8_NeverServesExpired ==
    \A k \in CacheKeys :
        LET h == has_cache(cache, files, now, k[1], k[2], k[3])
            g == get_cache(cache, files, now, k[1], k[2], k[3])
        IN  /\ h.ret <=> Unexpired(k)
            /\ g.ret # NoData => Unexpired(k) /\ g.ret = EntryOf(k).data
            /\ HasEntry(k) /\ ~Unexpired(k) =>
                  /\ ~h.ret /\ g.ret = NoData
                  /\ KeyOf(k) \notin DOMAIN h.cache /\ PathOf(k) \notin DOMAIN h.files
                  /\ KeyOf(k) \notin DOMAIN g.cache /\ PathOf(k) \notin DOMAIN g.files

\* a has call has just found its key's entry expired and evicted it
C8_Witness ==
    /\ last.op = "has" /\ last.evicted /\ ~last.ret
    /\ KeyOf(last.key) \notin DOMAIN cache
    /\ PathOf(last.key) \notin DOMAIN files

\* C9: set(q, m, p, D, ttl) followed immediately by get(q, m, p) returns D
\* and the entry's expiresAt is now + ttl, or now + defaultTtl when ttl is
\* omitted; the entry replaces the key's earlier one; after expiresAt the
\* entry is absent.
C9_CacheRoundTrip ==
    /\ [][\A k \in CacheKeys, data \in Payloads, ttl \in Ttls :
            SetCache(k, data, ttl) =>
                /\ get_cache(cache', files', now', k[1], k[2], k[3]).ret = data
                /\ cache'[KeyOf(k)].data = data
                /\ cache'[KeyOf(k)].expires_at =
                       now + (IF ttl.given THEN ttl.value ELSE default_ttl)]_vars
    /\ [](\A k \in CacheKeys :
            KeyOf(k) \in DOMAIN cache /\ now > cache[KeyOf(k)].expires_at =>
                get_cache(cache, files, now, k[1], k[2], k[3]).ret = NoData)

(***************************************************************************)
(* Exact arithmetic: a score is a fraction <<numerator, denominator>>      *)
(***************************************************************************)
RECURSIVE GCD(_, _)
GCD(m, n) == IF n = 0 THEN m ELSE GCD(n, m % n)

Abs(n) == IF n < 0 THEN -n ELSE n

Frac(n, d) == LET g == GCD(Abs(n), d) IN <<n \div g, d \div g>>
FInt(n) == <<n, 1>>
FAdd(x, y) == Frac(x[1] * y[2] + y[1] * x[2], x[2] * y[2])
FSub(x, y) == Frac(x[1] * y[2] - y[1] * x[2], x[2] * y[2])
FMul(x, y) == Frac(x[1] * y[1], x[2] * y[2])
FDiv(x, y) == Frac(x[1] * y[2], x[2] * y[1])
\* mutant: the comparison reversed
FGeq(x, y) == x[1] * y[2] >= y[1] * x[2]

FLeq(x, y) == x[1] * y[2] <= y[1] * x[2]

(***************************************************************************)
(* str operations on sequences of code points                              *)
(***************************************************************************)
CJKChars == {"U4E2D", "U6587"}
LowerChars == {"a", "b", "c"}
UpperChars == {"A", "B"}
DigitChars == {"1"}
SpaceChars == {" "}

LowerChar(ch) == IF ch = "A" THEN "a" ELSE IF ch = "B" THEN "b" ELSE ch

\* str.lower()
lower(text) == [i \in 1..Len(text) |-> LowerChar(text[i])]

\* str.strip()
RECURSIVE lstrip(_)
lstrip(text) ==
    IF text # <<>> /\ Head(text) \in SpaceChars THEN lstrip(Tail(text)) ELSE text

RECURSIVE rstrip(_)
rstrip(text) ==
    IF text # <<>> /\ text[Len(text)] \in SpaceChars
    THEN rstrip(SubSeq(text, 1, Len(text) - 1)) ELSE text

strip(text) == rstrip(lstrip(text))

\* `x in y` for strings
IsSubstring(x, y) ==
    \E i \in 0..(Len(y) - Len(x)) : SubSeq(y, i + 1, i + Len(x)) = x

\* list.count(x)
Count(list, x) == Cardinality({i \in 1..Len(list) : list[i] = x})

(***************************************************************************)
(* KeywordRegistry                                                         *)
(***************************************************************************)
k1 == <<3, 2>>
b == <<3, 4>>
avg_length == 5

\* the alternative of the pattern [\u4e00-\u9fff]+|[a-zA-Z]+|\d+ a code
\* point belongs to
CharClass(ch) ==
    IF ch \in CJKChars THEN "cjk"
    ELSE IF ch \in LowerChars \cup UpperChars THEN "latin"
    ELSE IF ch \in DigitChars THEN "digit"
    ELSE "other"

\* the length of the greedy match at the start of text
RunLen(text) ==
    CHOOSE n \in 1..Len(text) :
        /\ \A i \in 1..n : CharClass(text[i]) = CharClass(text[1])
        /\ n = Len(text) \/ CharClass(text[n + 1]) # CharClass(text[1])

\* re.findall(pattern, text)
RECURSIVE FindAll(_)
FindAll(text) ==
    IF text = <<>> THEN <<>>
    ELSE IF CharClass(Head(text)) = "other" THEN FindAll(Tail(text))
    ELSE <<SubSeq(text, 1, RunLen(text))>>
            \o FindAll(SubSeq(text, RunLen(text) + 1, Len(text)))

\* the prefixes of length i .. len-1 not yet among the tokens
RECURSIVE AddPrefixes(_, _, _)
AddPrefixes(tokens, match_lower, i) ==
    IF i >= Len(match_lower) THEN tokens
    ELSE LET prefix == SubSeq(match_lower, 1, i)
         IN  AddPrefixes(IF Contains(tokens, prefix) THEN tokens
                         ELSE Append(tokens, prefix),
                         match_lower, i + 1)

\* the tokens one match contributes
TokensWithMatch(tokens, match) ==
    IF CharClass(match[1]) = "cjk"
    THEN Append(tokens, match)
            \o (IF Len(match) <= 4 THEN [i \in 1..Len(match) |-> <<match[i]>>]
                ELSE <<>>)
    ELSE IF CharClass(match[1]) = "latin"
    THEN IF Len(match) <= 5
         THEN AddPrefixes(Append(tokens, lower(match)), lower(match), 2)
         ELSE Append(tokens, lower(match))
    ELSE Append(tokens, match)

RECURSIVE TokensOfMatches(_, _)
TokensOfMatches(matches, tokens) ==
    IF matches = <<>> THEN tokens
    ELSE TokensOfMatches(Tail(matches), TokensWithMatch(tokens, Head(matches)))

\* _tokenize (its memo table returns what this computes)
_tokenize(text) ==
    LET t == strip(lower(text))
    IN  IF t = <<>> THEN <<>> ELSE TokensOfMatches(FindAll(t), <<>>)

\* the weight of a query token found among the keyword's tokens
Idf(token, query, keyword) ==
    IF token = query \/ token = keyword THEN FInt(2)
    ELSE IF Len(token) >= 2 THEN <<3, 2>>
    ELSE <<1, 2>>

\* (tf * (k1 + 1)) / (tf + k1 * (1 - b + b * (keyword_length / avg_length)))
Bm25Tf(tf, keyword_length) ==
    LET normalization ==
            FAdd(FSub(FInt(1), b), FMul(b, Frac(keyword_length, avg_length)))
    IN  FDiv(FMul(FInt(tf), FAdd(k1, FInt(1))),
             FAdd(FInt(tf), FMul(k1, normalization)))

\* the loop over query_tokens
RECURSIVE TokenScore(_, _, _, _)
TokenScore(query_tokens, keyword_tokens, query, keyword) ==
    IF query_tokens = <<>> THEN FInt(0)
    ELSE LET token == Head(query_tokens)
             rest == TokenScore(Tail(query_tokens), keyword_tokens, query, keyword)
         IN  IF Contains(keyword_tokens, token)
             THEN FAdd(FMul(Idf(token, query, keyword),
                            Bm25Tf(Count(keyword_tokens, token), Len(keyword_tokens))),
                       rest)
             ELSE rest

\* the bonus for a query contained in the keyword
ContainBonus(query_lower, keyword_lower) ==
    IF IsSubstring(query_lower, keyword_lower)
    THEN IF FLeq(<<1, 2>>, Frac(Len(query_lower), Len(keyword_lower)))
         THEN FInt(2)
         ELSE Frac(Len(query_lower), Len(keyword_lower))
    ELSE FInt(0)

ExactScore == FInt(10)

\* _calculate_bm25_score
_calculate_bm25_score(query, keyword) ==
    LET query_tokens == _tokenize(query)
        keyword_tokens == _tokenize(keyword)
    IN  IF query_tokens = <<>> \/ keyword_tokens = <<>> THEN FInt(0)
        ELSE IF lower(query) = lower(keyword) THEN ExactScore
        ELSE FAdd(FDiv(TokenScore(query_tokens, keyword_tokens, query, keyword),
                       FInt(Len(query_tokens))),
                  ContainBonus(lower(query), lower(keyword)))

\* _platform_apis as an insertion-ordered dict: a list of <<platform, apis>>
Keys(pa) == [i \in 1..Len(pa) |-> pa[i][1]]
HasPlatform(pa, platform) == \E i \in 1..Len(pa) : pa[i][1] = platform
ApisOf(pa, platform) == pa[CHOOSE i \in 1..Len(pa) : pa[i][1] = platform][2]

\* the triples one platform contributes to the matches
MatchesOfPlatform(pa, threshold, query, platform, media_type) ==
    IF ~HasPlatform(pa, platform) THEN <<>>
    ELSE LET Qualifies(api) ==
                 /\ media_type = "all" \/ media_type = api[3]
                 /\ FLeq(threshold, _calculate_bm25_score(query, api[1]))
             kept == SelectSeq(ApisOf(pa, platform), Qualifies)
         IN  [i \in 1..Len(kept) |-> <<platform, kept[i][2], kept[i][3]>>]

RECURSIVE MatchesOfPlatforms(_, _, _, _, _)
MatchesOfPlatforms(pa, threshold, query, platforms, media_type) ==
    IF platforms = <<>> THEN <<>>
    ELSE MatchesOfPlatform(pa, threshold, query, Head(platforms), media_type)
            \o MatchesOfPlatforms(pa, threshold, query, Tail(platforms), media_type)

\* find_matching_apis
find_matching_apis(pa, threshold, query, available_platforms, media_type) ==
    LET q == lower(strip(query))
        platforms_to_search ==
            IF available_platforms.given /\ available_platforms.val # <<>>
            THEN available_platforms.val ELSE Keys(pa)
    IN  IF q = <<>> THEN <<>>
        ELSE MatchesOfPlatforms(pa, threshold, q, platforms_to_search, media_type)

\* register: [platform_apis, all_keywords]
register(pa, kws, platform, keyword, api_id, media_type) ==
    LET pa1 == IF HasPlatform(pa, platform) THEN pa
               ELSE Append(pa, <<platform, <<>>>>)
        kw == strip(keyword)
    IN  IF kw # <<>>
        THEN [platform_apis |->
                 [i \in 1..Len(pa1) |->
                     IF pa1[i][1] = platform
                     THEN <<platform, Append(pa1[i][2], <<kw, api_id, media_type>>)>>
                     ELSE pa1[i]],
              all_keywords |-> kws \cup {kw}]
        ELSE [platform_apis |-> pa1, all_keywords |-> kws]

\* mutant: the keywords of the platform are removed even when another
\* platform uses them
unregister_own_keywords(pa, kws, platform) ==
    IF ~HasPlatform(pa, platform) THEN [platform_apis |-> pa, all_keywords |-> kws]
    ELSE LET own == {ApisOf(pa, platform)[j][1] : j \in 1..Len(ApisOf(pa, platform))}
             NotIt(entry) == entry[1] # platform
         IN  [platform_apis |-> SelectSeq(pa, NotIt), all_keywords |-> kws \ own]

\* unregister: [platform_apis, all_keywords]
unregister(pa, kws, platform) ==
    IF ~HasPlatform(pa, platform) THEN [platform_apis |-> pa, all_keywords |-> kws]
    ELSE LET UsedByOthers(keyword) ==
                 \E i \in 1..Len(pa) :
                     /\ pa[i][1] # platform
                     /\ \E j \in 1..Len(pa[i][2]) : pa[i][2][j][1] = keyword
             own == {ApisOf(pa, platform)[j][1] : j \in 1..Len(ApisOf(pa, platform))}
             NotIt(entry) == entry[1] # platform
         IN  [platform_apis |-> SelectSeq(pa, NotIt),
              all_keywords |-> kws \ {kw \in own : ~UsedByOthers(kw)}]

(***************************************************************************)
(* SpecMatch: the Keyword Registry under register/unregister/find          *)
(***************************************************************************)
\* the keyword strings platforms register, as passed to register
KeywordStrings ==
    { <<"a", "b">>, <<"A", "b", "c">>, <<" ", "a", "b", " ">>,
      <<"U4E2D", "U6587">>, <<"!", "!">>, <<" ">> }

\* the query strings looked up
QueryStrings ==
    KeywordStrings \cup { <<"a", "b", "c", "a", "b", "c">>, <<"U4E2D", "1">> }

\* the (api id, media type) pairs registered
RegistryApis == { <<"search", "image">>, <<"xyz", "video">> }

\* the thresholds a registry is constructed with
Thresholds == { <<0, 1>>, <<3, 10>>, <<10, 1>> }

AvailableLists == { Absent, Given(<<"p">>), Given(<<"q", "p">>) }

MediaFilters == {"all", "image"}

\* bound: the number of registered entries
MaxEntries == 2

RECURSIVE TotalEntries(_)
TotalEntries(pa) ==
    IF pa = <<>> THEN 0 ELSE Len(Head(pa)[2]) + TotalEntries(Tail(pa))

InitMatch ==
    /\ platform_apis = <<>> /\ all_keywords = {}
    /\ similarity_threshold \in Thresholds
    /\ InitIdlePerm /\ InitIdleCache /\ InitIdleLast

Register(platform, keyword, api) ==
    /\ TotalEntries(platform_apis) < MaxEntries
    /\ LET r == register(platform_apis, all_keywords, platform, keyword, api[1], api[2])
       IN  platform_apis' = r.platform_apis /\ all_keywords' = r.all_keywords
    /\ last' = [op |-> "register"]
    /\ UNCHANGED <<threads, pending, similarity_threshold, permVars, cacheVars>>

Unregister(platform) ==
    /\ LET r == unregister(platform_apis, all_keywords, platform)
       IN  platform_apis' = r.platform_apis /\ all_keywords' = r.all_keywords
    /\ last' = [op |-> "unregister"]
    /\ UNCHANGED <<threads, pending, similarity_threshold, permVars, cacheVars>>

FindMatchingApis(query, available_platforms, media_type) ==
    /\ last' = [op |-> "find",
                ret |-> find_matching_apis(platform_apis, similarity_threshold,
                                           query, available_platforms, media_type)]
    /\ UNCHANGED <<threads, pending, registryVars, permVars, cacheVars>>

NextMatch ==
    \/ \E platform \in Platforms, keyword \in KeywordStrings, api \in RegistryApis :
            Register(platform, keyword, api)
    \/ \E platform \in Platforms : Unregister(platform)
    \/ \E query \in QueryStrings, available_platforms \in AvailableLists,
          media_type \in MediaFilters :
            FindMatchingApis(query, available_platforms, media_type)

SpecMatch == InitMatch /\ [][NextMatch]_vars

(***************************************************************************)
(* Properties of the Keyword Registry                                      *)
(***************************************************************************)
\* the registered entries, as <<platform, keyword, api id, media type>>
RegisteredEntries ==
    UNION { { <<platform_apis[i][1], platform_apis[i][2][j][1],
                platform_apis[i][2][j][2], platform_apis[i][2][j][3]>> :
                j \in 1..Len(platform_apis[i][2]) } :
            i \in 1..Len(platform_apis) }

\* C10: for every registered entry (P, K, A, M) and the configured
\* threshold, find_matching_apis(K, platforms including P or unrestricted,
\* filter M or "all") includes the triple (P, A, M), and no query scores
\* above the exact-match score against a registered keyword.
C10_ExactMatchPriority ==
    \A e \in RegisteredEntries :
        /\ \A available_platforms \in AvailableLists, media_type \in {e[4], "all"} :
              (available_platforms.given => Contains(available_platforms.val, e[1]))
              => Contains(find_matching_apis(platform_apis, similarity_threshold,
                                             e[2], available_platforms, media_type),
                          <<e[1], e[3], e[4]>>)
        /\ _calculate_bm25_score(lower(strip(e[2])), e[2]) = ExactScore
        /\ \A query \in QueryStrings :
              FLeq(_calculate_bm25_score(lower(strip(query)), e[2]), ExactScore)

(***************************************************************************)
(* get_media: the resolver                                                 *)
(***************************************************************************)
\* platforms._platform_instances
PlatformInstances == {"p", "q", "w"}

\* get_platform: the instance (its name), or None
get_platform(name) == IF name \in PlatformInstances THEN name ELSE None

\* a set as a list
RECURSIVE SeqOf(_)
SeqOf(S) ==
    IF S = {} THEN <<>>
    ELSE LET x == CHOOSE y \in S : TRUE IN <<x>> \o SeqOf(S \ {x})

ResolveKeyword == <<"a", "b">>

\* the titles of an adapter with more APIs than a diagnostic shows
ManyKeywords ==
    { <<x, y>> : x \in {"c", "1", "?"}, y \in {"c", "1", "?", "-", "+", "#", "%"} }

\* the adapters' api_map: <<api id, title, media type>> per platform
api_map(platform) ==
    IF platform = "p" THEN { <<"search", ResolveKeyword, "image">> }
    ELSE IF platform = "q" THEN { <<"xyz", ResolveKeyword, "video">> }
    ELSE IF platform = "w" THEN { <<Cat(title), title, "audio">> : title \in ManyKeywords }
    ELSE {}

\* the adapters' get_supported_media_types: the media types of the api_map
get_supported_media_types(platform) ==
    SeqOf({api[3] : api \in api_map(platform)})

\* mutant: step 2 keeps the platforms that have no instance
TypeFilteredPlatformsAnyInstance(cfg, media_type, group_id) ==
    LET Supports(platform_name) ==
            \/ get_platform(platform_name) = None
            \/ media_type = "all"
            \/ Contains(get_supported_media_types(platform_name), media_type)
    IN  SelectSeq(SeqOf(get_available_platforms(cfg, group_id)), Supports)

\* step 2: the available platforms that have an instance supporting the type
TypeFilteredPlatforms(cfg, media_type, group_id) ==
    LET Supports(platform_name) ==
            /\ get_platform(platform_name) # None
            /\ \/ media_type = "all"
               \/ Contains(get_supported_media_types(platform_name), media_type)
    IN  SelectSeq(SeqOf(get_available_platforms(cfg, group_id)), Supports)

\* step 4: the matched triples whose API is enabled for the scope
EnabledApis(cfg, matching_apis, group_id) ==
    LET Enabled(api) == is_api_enabled(cfg, group_id, api[1], api[2])
    IN  SelectSeq(matching_apis, Enabled)

\* mutant: the first of the enabled APIs is always the one taken
ChoicesFirst(enabled_apis) == {1}

\* step 5: `random.choice(enabled_apis)` may return any element of the list
Choices(enabled_apis) == 1..Len(enabled_apis)

\* {"error": ...}: the kind of message and what it carries
Error(kind, detail) ==
    [error |-> kind, detail |-> detail, keywords |-> <<>>, keywords_count |-> 0]

\* `list(self._all_keywords)`: the set as a list, in the set's iteration order
get_all_keywords(kws) == SeqOf(kws)

\* `all_keywords[:20]`
MaxShownKeywords == 20
Shown(keywords) == SubSeq(keywords, 1, IF Len(keywords) < MaxShownKeywords
                                        THEN Len(keywords) ELSE MaxShownKeywords)

\* get_media's message "no keyword matched, known keywords: ..." with the
\* number its suffix states (0: no suffix)
KeywordError(keywords) ==
    [error |-> "NoKeywordMatch", detail |-> "", keywords |-> Shown(keywords),
     keywords_count |-> IF Len(keywords) > MaxShownKeywords THEN Len(keywords) ELSE 0]

\* _get_media_internal's error for the same case
KeywordErrorInternal(keywords) ==
    IF Len(keywords) > MaxShownKeywords
    THEN [error |-> "NoKeywordMatch", detail |-> "", keywords |-> keywords,
          keywords_count |-> Len(keywords)]
    ELSE KeywordError(keywords)

\* json.load returned a list: the in-memory document is not a dict, and
\* `self._config.get(...)` raises AttributeError
JsonList == [json |-> "list"]
RaisesAttributeError(cfg) == cfg = JsonList

\* an exception leaving the function
Escaped(msg) == [exception |-> msg]

\* mutant: the outer try covers steps 1-7 only
OuterTryChecksOnly == {"checks"}

\* the outer try/except: steps 1-7 and, inside the inner except, steps 12-13
OuterTry == {"checks", "handler"}

\* an exception raised at a step: `except Exception as e: return {"error": ...}`
\* when the step is inside the outer try
Caught(step, msg) ==
    IF step \in OuterTry THEN Error("GetMediaFailed", msg) ELSE Escaped(msg)

\* mutant: the keyword check and the enabled-API check come before the
\* two platform checks
CandidatesMatchFirst(cfg, pa, kws, threshold, query, media_type, group_id) ==
    LET type_filtered_platforms == TypeFilteredPlatforms(cfg, media_type, group_id)
        matching_apis ==
            find_matching_apis(pa, threshold, query,
                               Given(type_filtered_platforms), media_type)
        enabled_apis == EnabledApis(cfg, matching_apis, group_id)
    IN  IF RaisesAttributeError(cfg)
        THEN [ok |-> FALSE, ret |-> Caught("checks", "AttributeError"), apis |-> <<>>]
        ELSE IF matching_apis = <<>>
        THEN [ok |-> FALSE, apis |-> <<>>,
              ret |-> IF kws # {} THEN KeywordError(get_all_keywords(kws))
                      ELSE Error("NoKeywordRegistered", "")]
        ELSE IF enabled_apis = <<>>
        THEN [ok |-> FALSE, ret |-> Error("AllApisDisabled", ""), apis |-> <<>>]
        ELSE IF get_available_platforms(cfg, group_id) = {}
        THEN [ok |-> FALSE, ret |-> Error("NoPlatformAvailable", ""), apis |-> <<>>]
        ELSE IF type_filtered_platforms = <<>>
        THEN [ok |-> FALSE, ret |-> Error("NoPlatformForType", media_type), apis |-> <<>>]
        ELSE [ok |-> TRUE, ret |-> Error("", ""), apis |-> enabled_apis]

\* steps 1-4: the enabled triples, or the error returned early
Candidates(cfg, pa, kws, threshold, query, media_type, group_id) ==
    LET type_filtered_platforms == TypeFilteredPlatforms(cfg, media_type, group_id)
        matching_apis ==
            find_matching_apis(pa, threshold, query,
                               Given(type_filtered_platforms), media_type)
        enabled_apis == EnabledApis(cfg, matching_apis, group_id)
    IN  IF RaisesAttributeError(cfg)
        THEN [ok |-> FALSE, ret |-> Caught("checks", "AttributeError"), apis |-> <<>>]
        ELSE IF get_available_platforms(cfg, group_id) = {}
        THEN [ok |-> FALSE, ret |-> Error("NoPlatformAvailable", ""), apis |-> <<>>]
        ELSE IF type_filtered_platforms = <<>>
        THEN [ok |-> FALSE, ret |-> Error("NoPlatformForType", media_type), apis |-> <<>>]
        ELSE IF matching_apis = <<>>
        THEN [ok |-> FALSE, apis |-> <<>>,
              ret |-> IF kws # {} THEN KeywordError(get_all_keywords(kws))
                      ELSE Error("NoKeywordRegistered", "")]
        ELSE IF enabled_apis = <<>>
        THEN [ok |-> FALSE, ret |-> Error("AllApisDisabled", ""), apis |-> <<>>]
        ELSE [ok |-> TRUE, ret |-> Error("", ""), apis |-> enabled_apis]

\* what `await platform_instance.search_media(...)` produces
Results(list) == [raised |-> FALSE, results |-> list, msg |-> ""]
Raised(msg) == [raised |-> TRUE, results |-> <<>>, msg |-> msg]

\* `if not results: raise Exception(...)`: the call failed with a message
SearchFailed(outcome) == outcome.raised \/ outcome.results = <<>>
FailureMessage(outcome) == IF outcome.raised THEN outcome.msg ELSE "NoResults"

\* `if cached_result:` of an Optional[dict]
TruthyDict(d) == d # NoData /\ DOMAIN d # {}

\* mutant: the result is cached under its own media type
CachedMediaTypeOfResult(call, result) == result.type

\* step 10: the media type of the cache key is the requested one
CachedMediaType(call, result) == call.media_type

\* steps 9-11: [ret, cache, files, failure_count]
OnSuccess(c, f, t, fc, call, outcome) ==
    LET first_result == outcome.results[1]
        result == [url |-> first_result.url, type |-> first_result.media_type]
        stored == set_cache(c, f, t, call.query, CachedMediaType(call, result),
                            call.platform, result, TtlNone)
    IN  [ret |-> result, cache |-> stored.cache, files |-> stored.files,
         failure_count |-> reset_failure(fc, call.platform, call.api_id, call.group_id)]

\* mutant: the failure is not recorded when the cache answers
RecordedFailureUnlessCached(c, f, t, fc, cfg, dsk, call) ==
    IF has_cache(c, f, t, call.query, call.media_type, call.platform).ret
    THEN <<fc, cfg, dsk>>
    ELSE record_failure(fc, cfg, dsk, call.platform, call.api_id, call.group_id)

\* mutant: every failure is reported under the API name "search"
RecordedFailureAsSearch(c, f, t, fc, cfg, dsk, call) ==
    record_failure(fc, cfg, dsk, call.platform, "search", call.group_id)

\* step 12
RecordedFailure(c, f, t, fc, cfg, dsk, call) ==
    record_failure(fc, cfg, dsk, call.platform, call.api_id, call.group_id)

\* mutant: only a raised exception is recorded as a failure
OnFailureRaisedOnly(c, f, t, fc, cfg, dsk, call, outcome) ==
    LET recorded == IF outcome.raised
                    THEN RecordedFailure(c, f, t, fc, cfg, dsk, call)
                    ELSE <<fc, cfg, dsk>>
        cached == get_cache(c, f, t, call.query, call.media_type, call.platform)
    IN  [ret |-> IF TruthyDict(cached.ret) THEN cached.ret
                 ELSE Error("ApiCallFailed", FailureMessage(outcome)),
         cache |-> cached.cache, files |-> cached.files,
         failure_count |-> recorded[1], config |-> recorded[2], disk |-> recorded[3]]

\* steps 12-13: [ret, cache, files, failure_count, config, disk]
OnFailure(c, f, t, fc, cfg, dsk, call, outcome) ==
    LET recorded == RecordedFailure(c, f, t, fc, cfg, dsk, call)
        cached == get_cache(c, f, t, call.query, call.media_type, call.platform)
    IN  [ret |-> IF TruthyDict(cached.ret) THEN cached.ret
                 ELSE Error("ApiCallFailed", FailureMessage(outcome)),
         cache |-> cached.cache, files |-> cached.files,
         failure_count |-> recorded[1], config |-> recorded[2], disk |-> recorded[3]]

(***************************************************************************)
(* SpecResolve: get_media calls over the four components                   *)
(***************************************************************************)
\* the registry after the platforms registered their api_map
ResolveRegistry ==
    LET r1 == register(<<>>, {}, "p", ResolveKeyword, "search", "image")
    IN  register(r1.platform_apis, r1.all_keywords, "q", ResolveKeyword, "xyz", "video")

ResolveDoc ==
    [global |-> EmptyFn, groups |-> EmptyFn,
     platforms |-> [x \in {"p", "q"} |-> PlatformBlob]]

\* the arguments of get_media
ResolveQueries == { ResolveKeyword, <<"!", "!">> }
ResolveMediaTypes == {"all"}
ResolveScopes == {None, "g1"}

\* the MediaResource lists and the exceptions an adapter call ends with
AdapterOutcomes ==
    { Results(<<>>), Raised("timeout"),
      Results(<<[url |-> "u1", media_type |-> "image"],
                [url |-> "u2", media_type |-> "video"]>>),
      Results(<<[url |-> "u2", media_type |-> "video"]>>) }

\* bound: the number of calls suspended at once
MaxPending == 1

InitResolve ==
    /\ config = ResolveDoc /\ disk = Persisted(ResolveDoc) /\ failure_count = EmptyFn
    /\ InitIdleCache
    /\ platform_apis = ResolveRegistry.platform_apis
    /\ all_keywords = ResolveRegistry.all_keywords
    /\ similarity_threshold = <<3, 10>>
    /\ InitIdleLast

\* get_media up to the await: an early return, or the call suspended with
\* the API random.choice picked
BeginResolve(query, media_type, group_id) ==
    /\ Cardinality(pending) < MaxPending
    /\ SumOf(failure_count) + Cardinality(pending) < MaxFailures
    /\ LET cand == Candidates(config, platform_apis, all_keywords,
                              similarity_threshold, query, media_type, group_id)
       IN  IF ~cand.ok
           THEN /\ last' = [op |-> "resolve", ret |-> cand.ret]
                /\ UNCHANGED pending
           ELSE \E i \in Choices(cand.apis) :
                   LET call == [query |-> query, media_type |-> media_type,
                                group_id |-> group_id,
                                platform |-> cand.apis[i][1],
                                api_id |-> cand.apis[i][2]]
                   IN  IF get_platform(call.platform) = None
                       THEN /\ last' = [op |-> "resolve",
                                        ret |-> Error("PlatformMissing", call.platform)]
                            /\ UNCHANGED pending
                       ELSE /\ pending' = pending \cup {call}
                            /\ UNCHANGED last
    /\ UNCHANGED <<threads, permVars, cacheVars, registryVars>>

\* mutant: a failed call is followed by a call of the platform's other API
StillPendingRetry(pend, call, outcome) ==
    IF SearchFailed(outcome)
    THEN (pend \ {call}) \cup {[call EXCEPT !.api_id = "retry"]}
    ELSE pend \ {call}

\* the adapter calls in flight once the await of a call is over: both
\* branches return, no other call is started
StillPending(pend, call, outcome) == pend \ {call}

\* the failure count of the call's key as the adapter call ends
CountBefore(call) ==
    get_failure_count(failure_count, call.platform, call.api_id, call.group_id)

\* get_media from the await to its return
CompleteResolve(call, outcome) ==
    /\ call \in pending
    /\ pending' = StillPending(pending, call, outcome)
    /\ IF SearchFailed(outcome)
       THEN LET r == OnFailure(cache, files, now, failure_count, config, disk,
                               call, outcome)
            IN  /\ failure_count' = r.failure_count
                /\ config' = r.config /\ disk' = r.disk
                /\ cache' = r.cache /\ files' = r.files
                /\ last' = [op |-> "resolve", call |-> call, failed |-> TRUE,
                            ret |-> r.ret, count |-> CountBefore(call)]
       ELSE LET r == OnSuccess(cache, files, now, failure_count, call, outcome)
            IN  /\ failure_count' = r.failure_count
                /\ cache' = r.cache /\ files' = r.files
                /\ last' = [op |-> "resolve", call |-> call, failed |-> FALSE,
                            ret |-> r.ret, count |-> CountBefore(call)]
                /\ UNCHANGED <<config, disk>>
    /\ UNCHANGED <<threads, now, registryVars>>

\* the clock is read after a wait of default_ttl, and shortly after that
LongWaitFirst(d) == d < default_ttl => now >= default_ttl

NextResolve ==
    \/ \E query \in ResolveQueries, media_type \in ResolveMediaTypes,
          group_id \in ResolveScopes :
            BeginResolve(query, media_type, group_id)
    \/ \E call \in pending, outcome \in AdapterOutcomes : CompleteResolve(call, outcome)
    \/ \E d \in Delays : LongWaitFirst(d) /\ Advance(d)

SpecResolve == InitResolve /\ [][NextResolve]_vars

(***************************************************************************)
(* Properties of the resolver                                              *)
(***************************************************************************)
\* the cache key triple and the failure key of a call
CacheKeyOf(call) == <<call.query, call.media_type, call.platform>>
FailureKeyOf(call) == _get_failure_key(call.platform, call.api_id, call.group_id)

FirstPayload(outcome) ==
    [url |-> outcome.results[1].url, type |-> outcome.results[1].media_type]

\* C1: when the adapter call of a resolve fails, the failure count of
\* (selected platform, selected api, scope) grows by exactly one and no
\* other count changes; the call returns the payload cached under (query,
\* requested media type, selected platform) if an unexpired entry exists,
\* and otherwise an error carrying the adapter's failure message.  A failing
\* call right after a successful one of the same arguments returns the
\* payload of the successful one and leaves the count at exactly 1.
C1_FailurePath ==
    [][\A call \in pending, outcome \in AdapterOutcomes :
          SearchFailed(outcome) /\ CompleteResolve(call, outcome) =>
            /\ failure_count' =
                  Put(failure_count, FailureKeyOf(call),
                      Get(failure_count, FailureKeyOf(call), 0) + 1)
            /\ IF Unexpired(CacheKeyOf(call))
               THEN last'.ret = EntryOf(CacheKeyOf(call)).data
               ELSE last'.ret = Error("ApiCallFailed", FailureMessage(outcome))
            /\ (/\ last.op = "resolve" /\ "call" \in DOMAIN last
                /\ last.call = call /\ ~last.failed)
               => /\ failure_count'[FailureKeyOf(call)] = 1
                  /\ last'.ret = last.ret]_vars

\* a failing call has just been answered from the cache, its count now 1
C1_Witness ==
    /\ last.op = "resolve" /\ "call" \in DOMAIN last /\ last.failed
    /\ "url" \in DOMAIN last.ret
    /\ last.count = 0
    /\ failure_count[FailureKeyOf(last.call)] = 1

\* C2: when the adapter call of a resolve succeeds, the call returns
\* {url, type} of the first result, the cache then holds exactly that
\* payload under (query, requested media type, selected platform), a lookup
\* of that key returns it, and the failure count of (selected platform,
\* selected api, scope) is 0.
C2_SuccessPath ==
    [][\A call \in pending, outcome \in AdapterOutcomes :
          ~SearchFailed(outcome) /\ CompleteResolve(call, outcome) =>
            /\ last'.ret = FirstPayload(outcome)
            /\ KeyOf(CacheKeyOf(call)) \in DOMAIN cache'
            /\ cache'[KeyOf(CacheKeyOf(call))].data = FirstPayload(outcome)
            /\ get_cache(cache', files', now', call.query, call.media_type,
                         call.platform).ret = FirstPayload(outcome)
            /\ get_failure_count(failure_count', call.platform, call.api_id,
                                 call.group_id) = 0]_vars

\* a call whose key had failures has just succeeded: payload cached, count 0
C2_Witness ==
    /\ last.op = "resolve" /\ "call" \in DOMAIN last /\ ~last.failed
    /\ last.count >= 2
    /\ FailureKeyOf(last.call) \notin DOMAIN failure_count
    /\ cache[KeyOf(CacheKeyOf(last.call))].data = last.ret

\* the number of times x occurs in the matches
Occurrences(matches, x) == Cardinality({i \in 1..Len(matches) : matches[i] = x})

\* C11: for the registry contents of every state and every query, platform
\* list and media-type filter, each triple returned with the configured
\* threshold is returned at least as often with the threshold set to 0.
C11_ThresholdMonotonicity ==
    \A query \in QueryStrings, available_platforms \in AvailableLists,
       media_type \in MediaFilters :
        LET atZero == find_matching_apis(platform_apis, <<0, 1>>, query,
                                         available_platforms, media_type)
            atThreshold == find_matching_apis(platform_apis, similarity_threshold,
                                              query, available_platforms, media_type)
        IN  \A i \in 1..Len(atThreshold) :
                Occurrences(atThreshold, atThreshold[i])
                    <= Occurrences(atZero, atThreshold[i])

\* a find under a positive threshold has returned a match, and threshold 0
\* returns strictly more for some query
C11_Witness ==
    /\ last.op = "find" /\ last.ret # <<>>
    /\ similarity_threshold # <<0, 1>>
    /\ \E query \in QueryStrings :
          LET atZero == find_matching_apis(platform_apis, <<0, 1>>, query,
                                           Absent, "all")
              atThreshold == find_matching_apis(platform_apis, similarity_threshold,
                                                query, Absent, "all")
          IN  atThreshold # <<>> /\ Len(atZero) > Len(atThreshold)

(***************************************************************************)
(* SpecChecks: get_media over documents and registries that empty each of  *)
(* its four checks                                                         *)
(***************************************************************************)
\* documents: nothing configured; p and q enabled; p and q disabled
\* globally; only a platform without an instance; g1 with p disabled and
\* the API of q disabled; the API of p disabled globally; a JSON list
ChecksDocs ==
    { DefaultConfig,
      ResolveDoc,
      [ResolveDoc EXCEPT !.global = [x \in {"disabled_platforms"} |-> <<"p", "q">>]],
      [ResolveDoc EXCEPT !.platforms = [x \in {"r"} |-> PlatformBlob]],
      [ResolveDoc EXCEPT !.groups =
          [x \in {"g1"} |-> [y \in {"disabled_platforms", "disabled_apis"} |->
              IF y = "disabled_platforms" THEN <<"p">> ELSE <<"q:xyz">>]]],
      [ResolveDoc EXCEPT !.global = [x \in {"disabled_apis"} |-> <<"p:search">>]],
      JsonList }

\* PlatformBase.register_apis_from_map
RECURSIVE register_apis_from_map(_, _, _)
register_apis_from_map(registry, name, apis) ==
    IF apis = {} THEN registry
    ELSE LET api == CHOOSE x \in apis : TRUE
         IN  register_apis_from_map(
                 register(registry.platform_apis, registry.all_keywords,
                          name, api[2], api[1], api[3]),
                 name, apis \ {api})

\* registries after unregister_platform: nothing left; w alone left
EmptyRegistry == [platform_apis |-> <<>>, all_keywords |-> {}]
ManyRegistry == register_apis_from_map(EmptyRegistry, "w", api_map("w"))

\* the documents with p and q registered, the two plain documents with no
\* adapter registered, and w alone configured and registered
\* a registry with keywords of "r", a configured platform without instance
GhostRegistry ==
    register(ResolveRegistry.platform_apis, ResolveRegistry.all_keywords,
             "r", ResolveKeyword, "search", "image")

ChecksDeployments ==
    {<<doc, ResolveRegistry>> : doc \in ChecksDocs}
    \cup {<<DefaultConfig, EmptyRegistry>>, <<ResolveDoc, EmptyRegistry>>,
          <<[ResolveDoc EXCEPT !.platforms = [x \in {"p", "r"} |-> PlatformBlob]],
            GhostRegistry>>,
          <<[ResolveDoc EXCEPT !.platforms = [x \in {"w"} |-> PlatformBlob]],
            ManyRegistry>>}

ChecksMediaTypes == {"all", "image", "audio"}

ChecksOutcomes == { Raised("timeout"), Results(<<[url |-> "u2", media_type |-> "video"]>>) }

InitChecks ==
    /\ \E deployment \in ChecksDeployments :
          /\ config = deployment[1]
          /\ platform_apis = deployment[2].platform_apis
          /\ all_keywords = deployment[2].all_keywords
    /\ disk = Persisted(config) /\ failure_count = EmptyFn
    /\ InitIdleCache
    /\ similarity_threshold = <<3, 10>>
    /\ InitIdleLast

\* the keyword error of MediaApiTool._get_media_internal in place of the
\* one of get_media
WithInternalKeywordError(cand, kws) ==
    IF ~cand.ok /\ cand.ret = KeywordError(get_all_keywords(kws))
    THEN [cand EXCEPT !.ret = KeywordErrorInternal(get_all_keywords(kws))]
    ELSE cand

\* steps 1-4 of MediaApiTool._get_media_internal: those of get_media but
\* for the keyword error
CandidatesInternal(cfg, pa, kws, threshold, query, media_type, group_id) ==
    WithInternalKeywordError(
        Candidates(cfg, pa, kws, threshold, query, media_type, group_id), kws)

\* steps 5-6 of MediaApiTool._get_media_internal
SelectInternal(cand, query, media_type, group_id) ==
    IF ~cand.ok
    THEN /\ last' = [op |-> "resolve_internal", ret |-> cand.ret]
         /\ UNCHANGED pending
    ELSE \E i \in Choices(cand.apis) :
            LET call == [query |-> query, media_type |-> media_type,
                         group_id |-> group_id,
                         platform |-> cand.apis[i][1],
                         api_id |-> cand.apis[i][2]]
            IN  IF get_platform(call.platform) = None
                THEN /\ last' = [op |-> "resolve_internal",
                                 ret |-> Error("PlatformMissing", call.platform)]
                     /\ UNCHANGED pending
                ELSE /\ pending' = pending \cup {call}
                     /\ UNCHANGED last

\* MediaApiTool._get_media_internal up to the await
BeginResolveInternal(query, media_type, group_id) ==
    /\ Cardinality(pending) < MaxPending
    /\ SumOf(failure_count) + Cardinality(pending) < MaxFailures
    /\ SelectInternal(CandidatesInternal(config, platform_apis, all_keywords,
                                         similarity_threshold, query, media_type,
                                         group_id),
                      query, media_type, group_id)
    /\ UNCHANGED <<threads, permVars, cacheVars, registryVars>>

\* the lists _auto_disable passes to update_group_config, both absent when
\* record_failure does not get there
AutoDisableUpdate(fc, cfg, platform, api_name, group_id) ==
    LET key == _get_failure_key(platform, api_name, group_id)
        none == [disabled_platforms |-> Absent, disabled_apis |-> Absent]
    IN  IF ~ReachedThreshold(Get(fc, key, 0) + 1) \/ ~AutoDisableApplies(group_id)
        THEN none
        ELSE IF DisablesPlatform(api_name)
        THEN [none EXCEPT !.disabled_platforms =
                              DisabledPlatformList(cfg, platform, group_id)]
        ELSE [none EXCEPT !.disabled_apis =
                              DisabledApiList(cfg, platform, api_name, group_id)]

\* get_media from the await to its return when the adapter call fails and
\* _save_config raises inside record_failure: the counter and the in-memory
\* document are changed, the file is not, the cache is not consulted
CompleteResolveSaveFails(call, outcome) ==
    /\ call \in pending
    /\ SearchFailed(outcome)
    /\ LET update == AutoDisableUpdate(failure_count, config, call.platform,
                                       call.api_id, call.group_id)
           key == _get_failure_key(call.platform, call.api_id, call.group_id)
       IN  /\ update.disabled_platforms.given \/ update.disabled_apis.given
           /\ failure_count' = Put(failure_count, key, Get(failure_count, key, 0) + 1)
           /\ config' = GroupConfigUpdated(config, call.group_id,
                                           update.disabled_platforms,
                                           update.disabled_apis)
    /\ pending' = StillPending(pending, call, outcome)
    /\ last' = [op |-> "resolve", call |-> call, failed |-> TRUE,
                ret |-> Caught("handler", "OSError"), count |-> CountBefore(call)]
    /\ UNCHANGED <<threads, disk, cacheVars, registryVars>>

NextChecks ==
    \/ \E query \in ResolveQueries, media_type \in ChecksMediaTypes,
          group_id \in ResolveScopes :
          \/ BeginResolve(query, media_type, group_id)
          \/ BeginResolveInternal(query, media_type, group_id)
    \/ \E call \in pending, outcome \in ChecksOutcomes : CompleteResolve(call, outcome)
    \/ \E call \in pending, outcome \in ChecksOutcomes :
          CompleteResolveSaveFails(call, outcome)

SpecChecks == InitChecks /\ [][NextChecks]_vars

(***************************************************************************)
(* Properties of the resolver's checks                                     *)
(***************************************************************************)
\* check 1: the platforms available for the scope
AvailableForScope(group_id) == get_available_platforms(config, group_id)

\* check 2: those with an instance that supports the requested media type
SupportingType(group_id, media_type) ==
    { platform \in AvailableForScope(group_id) :
        /\ platform \in PlatformInstances
        /\ \/ media_type = "all"
           \/ \E api \in api_map(platform) : api[3] = media_type }

\* check 3: the keyword matches among those platforms
KeywordMatches(group_id, media_type, query) ==
    LET supporting == SupportingType(group_id, media_type)
    IN  IF supporting = {} THEN {}
        ELSE { m \in Elements(find_matching_apis(platform_apis, similarity_threshold,
                                                 query, Absent, media_type)) :
                 m[1] \in supporting }

\* check 4: the matches whose API is enabled for the scope
EnabledMatches(group_id, media_type, query) ==
    { m \in KeywordMatches(group_id, media_type, query) :
        is_api_enabled(config, group_id, m[1], m[2]) }

\* the error of the first empty check, "" when none is empty
FirstEmptyCheck(group_id, media_type, query) ==
    IF AvailableForScope(group_id) = {} THEN {"NoPlatformAvailable"}
    ELSE IF SupportingType(group_id, media_type) = {} THEN {"NoPlatformForType"}
    ELSE IF KeywordMatches(group_id, media_type, query) = {}
    THEN {"NoKeywordMatch", "NoKeywordRegistered"}
    ELSE IF EnabledMatches(group_id, media_type, query) = {} THEN {"AllApisDisabled"}
    ELSE {""}

\* C12: get_media checks, in this order, the platforms available for the
\* scope, those supporting the requested media type, the keyword matches
\* and the matches whose API is enabled; it returns at the first empty
\* check with the error of that check, never with the error of a later
\* one, and goes on to the adapter call only when none is empty.
C12_CheckOrder ==
    [][\A query \in ResolveQueries, media_type \in ChecksMediaTypes,
          group_id \in ResolveScopes :
          BeginResolve(query, media_type, group_id) /\ ~RaisesAttributeError(config) =>
              LET first == FirstEmptyCheck(group_id, media_type, query)
              IN  IF first = {""}
                  THEN /\ pending' # pending
                       /\ \A call \in pending' \ pending :
                             <<call.platform, call.api_id>> \in
                                 { <<m[1], m[2]>> :
                                     m \in EnabledMatches(group_id, media_type, query) }
                  ELSE /\ pending' = pending
                       /\ last'.op = "resolve" /\ last'.ret.error \in first]_vars

\* a call returned the error of the first check while the keyword check
\* would have been empty too; another returned the error of the last check
C12_Witness ==
    /\ last.op = "resolve" /\ "call" \notin DOMAIN last
    /\ last.ret.error = "NoPlatformForType"
    /\ \E query \in ResolveQueries, group_id \in ResolveScopes :
          /\ AvailableForScope(group_id) # {}
          /\ SupportingType(group_id, last.ret.detail) = {}
          /\ Elements(find_matching_apis(platform_apis, similarity_threshold,
                                         query, Absent, last.ret.detail)) = {}

\* the last call returned the keyword error
KeywordErrorReturned ==
    /\ last.op \in {"resolve", "resolve_internal"}
    /\ "error" \in DOMAIN last.ret
    /\ last.ret.error = "NoKeywordMatch"

\* C14: the error returned when no keyword matches carries at most 20 of
\* the registered keywords and, when more than 20 are registered, states
\* how many more there are.
C14_BoundedKeywordDiagnostic ==
    KeywordErrorReturned =>
        /\ Len(last.ret.keywords) <= MaxShownKeywords
        /\ Elements(last.ret.keywords) \subseteq all_keywords
        /\ Cardinality(Elements(last.ret.keywords)) = Len(last.ret.keywords)
        /\ last.ret.keywords_count =
              IF Cardinality(all_keywords) > MaxShownKeywords
              THEN Cardinality(all_keywords) - MaxShownKeywords ELSE 0

\* what get_media may return: {url, type} or {error: message}
IsResult(ret) == DOMAIN ret = {"url", "type"}
IsError(ret) == "error" \in DOMAIN ret /\ ret.error # ""

\* C13: every call of the resolver ends by returning a result {url, type}
\* or an error with a message, whatever the adapter returns or raises, also
\* when saving the document raises during auto-disable and when the
\* in-memory document is malformed; no exception leaves it.
C13_NoExceptionEscapes ==
    last.op \in {"resolve", "resolve_internal"} =>
        IsResult(last.ret) \/ IsError(last.ret)

\* a call ended while the save of the auto-disabled group raised: the
\* in-memory document has the platform or API disabled, the file has not
C13_Witness ==
    /\ last.op = "resolve" /\ "call" \in DOMAIN last
    /\ last.ret = Error("GetMediaFailed", "OSError")
    /\ disk.kind = "ok" /\ config # disk.doc
    /\ get_failure_count(failure_count, last.call.platform, last.call.api_id,
                         last.call.group_id) >= failure_threshold

(***************************************************************************)
(* Properties of update_group_config and reload_config (under SpecStore)   *)
(***************************************************************************)
\* the sub-field of the group is the same in both documents: absent in
\* both, or the same list
SameSubField(old, new, group_id, field) ==
    LET g0 == get_group_config(old, group_id)
        g1 == get_group_config(new, group_id)
    IN  /\ field \in DOMAIN g0 <=> field \in DOMAIN g1
        /\ field \in DOMAIN g0 => g1[field] = g0[field]

\* C15: update_group_config(scope, ...) sets each passed sub-field of the
\* scope to the passed list, whatever the list was before, and leaves the
\* sub-fields not passed, the other scopes, the global section and the
\* platforms as they were.
C15_UpdateReplaces ==
    [][\A g \in GroupIds, dp \in AdminPlatformLists, da \in AdminApiLists :
          UpdateGroupConfig(g, dp, da) =>
              /\ IF dp.given
                 THEN /\ "disabled_platforms" \in DOMAIN get_group_config(config', g)
                      /\ get_group_config(config', g)["disabled_platforms"] = dp.val
                 ELSE SameSubField(config, config', g, "disabled_platforms")
              /\ IF da.given
                 THEN /\ "disabled_apis" \in DOMAIN get_group_config(config', g)
                      /\ get_group_config(config', g)["disabled_apis"] = da.val
                 ELSE SameSubField(config, config', g, "disabled_apis")
              /\ \A other \in GroupIds \ {g} :
                    /\ other \in DOMAIN Get(config', "groups", EmptyFn)
                          <=> other \in DOMAIN Get(config, "groups", EmptyFn)
                    /\ get_group_config(config', other) = get_group_config(config, other)
              /\ Get(config', "global", EmptyFn) = Get(config, "global", EmptyFn)
              /\ Get(config', "platforms", EmptyFn) = Get(config, "platforms", EmptyFn)
              /\ disk' = Persisted(config')]_vars

\* g1 had only "p:xyz" disabled and was given the platform list [q]: the
\* API list is kept, and g2 is as it was
C15_Witness ==
    /\ "g1" \in DOMAIN Get(config, "groups", EmptyFn)
    /\ get_group_config(config, "g1") =
          [disabled_platforms |-> <<"q">>, disabled_apis |-> <<"p:xyz">>]
    /\ get_group_config(config, "g2") =
          [disabled_platforms |-> <<"q">>, disabled_apis |-> <<"p:search">>]
    /\ disk = Persisted(config)

GivenLists == { Given(<<>>), Given(<<"p">>), Given(<<"q", "p">>), Given(<<"r", "p">>) }

\* every triple returned for the list is of a registered platform of the
\* list and of the filtered media type
FilterSound(available_platforms, query, media_type) ==
    \A m \in Elements(find_matching_apis(platform_apis, similarity_threshold,
                                          query, available_platforms, media_type)) :
        /\ HasPlatform(platform_apis, m[1])
        /\ Contains(available_platforms.val, m[1])
        /\ media_type = "all" \/ m[3] = media_type

\* C17: for every platform list given to find_matching_apis, the empty one
\* included, every returned triple has a registered platform that is in
\* the list and, unless the filter is "all", the media type of the filter.
C17_FilterSoundness ==
    \A available_platforms \in GivenLists, query \in QueryStrings,
       media_type \in MediaFilters :
        FilterSound(available_platforms, query, media_type)

\* the entries of the other platforms, as <<platform, keyword, api id, type>>
EntriesOfOthers(pa, platform) ==
    UNION { IF pa[i][1] = platform THEN {}
            ELSE { <<pa[i][1], pa[i][2][j][1], pa[i][2][j][2], pa[i][2][j][3]>> :
                     j \in 1..Len(pa[i][2]) } :
            i \in 1..Len(pa) }

\* C18: after any sequence of register and unregister the global keyword
\* set is exactly the set of keywords of the entries that remain; a step
\* unregister(P) leaves no entry of P, keeps the entries of the other
\* platforms, and drops from the global set only keywords that no
\* remaining platform registers.
C18_GlobalKeywordSet ==
    /\ [](all_keywords = {e[2] : e \in RegisteredEntries})
    /\ [][\A platform \in Platforms :
             Unregister(platform) =>
                 /\ ~HasPlatform(platform_apis', platform)
                 /\ EntriesOfOthers(platform_apis', platform)
                        = EntriesOfOthers(platform_apis, platform)
                 /\ all_keywords' \subseteq all_keywords
                 /\ \A kw \in all_keywords \ all_keywords' :
                       \A e \in EntriesOfOthers(platform_apis, platform) : e[2] # kw]_vars

\* a platform was unregistered, one platform remains and its keywords are
\* the global set
C18_Witness ==
    /\ last.op = "unregister"
    /\ Len(platform_apis) = 1
    /\ all_keywords # {}
    /\ all_keywords = {e[2] : e \in RegisteredEntries}

(***************************************************************************)
(* Properties of the failure counters (checked under SpecTracker)          *)
(***************************************************************************)
CountedTriples == Platforms \X ApiIds \X Scopes

CountOf(fc, t) == get_failure_count(fc, t[1], t[2], t[3])

\* C19: get_failure_count(p, a, s) is the number of record_failure(p, a, s)
\* calls since the last reset_failure(p, a, s), or since the start: it is
\* 0 at the start, a record_failure adds one to its own counter only, a
\* reset_failure sets its own counter to 0 from any value and removes it,
\* and nothing else changes a counter.
C19_FailureCounter ==
    /\ \A t \in CountedTriples : CountOf(failure_count, t) = 0
    /\ [][\A t \in FailTriples :
             /\ RecordFailure(t[1], t[2], t[3]) =>
                   \A u \in CountedTriples :
                       CountOf(failure_count', u) =
                           CountOf(failure_count, u) + (IF u = t THEN 1 ELSE 0)
             /\ ResetFailure(t[1], t[2], t[3]) =>
                   /\ _get_failure_key(t[1], t[2], t[3]) \notin DOMAIN failure_count'
                   /\ \A u \in CountedTriples :
                         CountOf(failure_count', u) =
                             IF u = t THEN 0 ELSE CountOf(failure_count, u)]_vars
    /\ [][(\E u \in CountedTriples :
              CountOf(failure_count', u) # CountOf(failure_count, u))
          => \E t \in FailTriples : \/ RecordFailure(t[1], t[2], t[3])
                                    \/ ResetFailure(t[1], t[2], t[3])]_vars

\* p was disabled for g1 by its third failure there, and the counter of
\* (p, search, g1) is 0 again while another counter is not
C19_Witness ==
    /\ Contains(GroupDisabledPlatforms(config, "g1"), "p")
    /\ CountOf(failure_count, <<"p", "search", "g1">>) = 0
    /\ \E u \in CountedTriples : CountOf(failure_count, u) > 0

(***************************************************************************)
(* Properties of the bulk cache operations (checked under SpecCache)       *)
(***************************************************************************)
\* the entry the key has in memory, and the one in its file, are expired
MemoryExpired(k) == KeyOf(k) \in DOMAIN cache /\ now > cache[KeyOf(k)].expires_at
FileExpired(k) ==
    /\ PathOf(k) \in DOMAIN files /\ files[PathOf(k)].kind = "json"
    /\ now > files[PathOf(k)].entry.expires_at

CachePaths == {PathOf(k) : k \in CacheKeys}

\* C21: when the file of a key cannot be parsed and the key is not in
\* memory, has_cache returns False and get_cache returns None, the file is
\* deleted by that call and the key stays out of memory; loading the
\* directory deletes such a file too; and an unreadable file never becomes
\* a readable one, nor a deleted file a file, other than by set_cache.
C21_UnreadableFileDeleted ==
    /\ [][\A k \in CacheKeys :
             (HasCache(k) \/ GetCache(k)) /\ FileUnreadable(k) =>
                 /\ last'.op = "has" => last'.ret = FALSE
                 /\ last'.op = "get" => last'.ret = NoData
                 /\ PathOf(k) \notin DOMAIN files'
                 /\ KeyOf(k) \notin DOMAIN cache']_vars
    /\ [][Restart =>
             \A cache_file \in DOMAIN files :
                 files[cache_file].kind = "corrupt" => cache_file \notin DOMAIN files']_vars
    /\ [][\A cache_file \in CachePaths :
             /\ cache_file \in DOMAIN files' /\ files'[cache_file].kind = "json"
             /\ \/ cache_file \notin DOMAIN files
                \/ files[cache_file].kind = "corrupt"
             => last'.op = "set" /\ PathOf(last'.key) = cache_file]_vars

\* a has_cache call has just met an unreadable file for a key that was not
\* in memory and has left no file
C21_Witness ==
    /\ last.op = "has" /\ last.unreadable /\ ~last.ret
    /\ PathOf(last.key) \notin DOMAIN files
    /\ KeyOf(last.key) \notin DOMAIN cache

(***************************************************************************)
(* Properties of register (checked under SpecMatch)                        *)
(***************************************************************************)
\* get_all_platforms: `list(self._platform_apis.keys())`
get_all_platforms(pa) == Keys(pa)

\* has_keywords: the platform is registered with a non-empty list
has_keywords(pa, platform) ==
    HasPlatform(pa, platform) /\ Len(ApisOf(pa, platform)) > 0

\* the entry list of the platform, empty when it has none
EntryList(pa, platform) == IF HasPlatform(pa, platform) THEN ApisOf(pa, platform) ELSE <<>>

\* C22: register with a keyword that is empty after trimming changes
\* nothing: not the entry lists, not the platforms get_all_platforms and
\* has_keywords report, not the global keyword set; a register with any
\* other keyword appends the trimmed keyword to the platform's list and
\* adds it to the global set.
C22_EmptyKeywordNoOp ==
    [][\A platform \in Platforms, keyword \in KeywordStrings, api \in RegistryApis :
          Register(platform, keyword, api) =>
              IF strip(keyword) = <<>>
              THEN /\ get_all_platforms(platform_apis') = get_all_platforms(platform_apis)
                   /\ \A x \in Platforms :
                         /\ has_keywords(platform_apis', x) <=> has_keywords(platform_apis, x)
                         /\ EntryList(platform_apis', x) = EntryList(platform_apis, x)
                   /\ all_keywords' = all_keywords
              ELSE /\ EntryList(platform_apis', platform) =
                         Append(EntryList(platform_apis, platform),
                                <<strip(keyword), api[1], api[2]>>)
                   /\ all_keywords' = all_keywords \cup {strip(keyword)}]_vars

(***************************************************************************)
(* SpecThreads: the components called from several threads.  Every         *)
(* `with self._lock:` block is an acquiring step followed by the steps of  *)
(* its body; the last of them releases the lock.                           *)
(***************************************************************************)
\* the RLock of each component
Locks == {"registry", "config", "tracker", "cache"}

Holds(t, lock) == Contains(threads[t].held, lock)

\* RLock.acquire returns when no other thread owns the lock
CanAcquire(t, lock) == \A u \in Threads \ {t} : ~Holds(u, lock)

\* `with lock:` entered and left
Acquired(frame, lock) == [frame EXCEPT !.held = Append(@, lock)]
\* mutant: the lock is kept when the block is left
ReleasedNever(frame) == frame

Released(frame) == [frame EXCEPT !.held = SubSeq(@, 1, Len(@) - 1)]

\* a call entered: the frame of its first `with` body
Entered(op, pc, lock, platform, api_name, group_id) ==
    [IdleFrame EXCEPT !.op = op, !.pc = pc, !.held = <<lock>>,
                      !.platform = platform, !.api_name = api_name,
                      !.group_id = group_id]

\* a call returned: the thread is outside every call again; it carries on
\* the auto-disable it went through and the permission it read
Returned(frame, ret) ==
    IF frame.reached
    THEN [IdleFrame EXCEPT !.op = frame.op, !.platform = frame.platform,
                           !.api_name = frame.api_name, !.group_id = frame.group_id,
                           !.reached = TRUE, !.ret = ret]
    ELSE IdleFrame

\* `self._config = self._load_config()`: the list objects held by the
\* threads are no longer part of the in-memory document
Orphaned(thr) == [u \in Threads |-> [thr[u] EXCEPT !.ref.live = FALSE]]

\* the calls of the threads
ThreadPlatform == "p"
ThreadScope == "g1"
ThreadDocs ==
    { [global |-> EmptyFn, groups |-> EmptyFn,
       platforms |-> [x \in {"p"} |-> PlatformBlob]],
      [global |-> EmptyFn,
       groups |-> [g1 |-> [disabled_platforms |-> <<>>, disabled_apis |-> <<>>]],
       platforms |-> [x \in {"p"} |-> PlatformBlob]] }
ThreadKey == <<QUnder, "image", "p">>
ThreadPayload == [url |-> "u1", type |-> "image"]

InitThreads ==
    /\ \E d \in ThreadDocs : config = d /\ disk = Persisted(d)
    /\ failure_count = EmptyFn
    /\ InitIdleCache /\ InitIdleRegistry /\ InitIdleLast

\* ---- FailureTracker.record_failure ----
RecordFailureLock(t, api_name) ==
    /\ threads[t].pc = "idle" /\ CanAcquire(t, "tracker")
    /\ SumOf(failure_count) < MaxFailures
    /\ threads' = [threads EXCEPT ![t] =
            Entered("record_failure", "rf_count", "tracker",
                    ThreadPlatform, api_name, ThreadScope)]
    /\ UNCHANGED <<pending, permVars, cacheVars, registryVars, last>>

\* the increment and the threshold test
RecordFailureCount(t) ==
    /\ threads[t].pc = "rf_count"
    /\ LET f == threads[t]
           key == _get_failure_key(f.platform, f.api_name, f.group_id)
           count == Get(failure_count, key, 0) + 1
           reached == ReachedThreshold(count) /\ AutoDisableApplies(f.group_id)
       IN  /\ failure_count' = Put(failure_count, key, count)
           /\ threads' = [threads EXCEPT ![t] =
                  IF reached
                  THEN [f EXCEPT !.pc = "ad_lock", !.reached = TRUE]
                  ELSE Returned(f, "none")]
    /\ UNCHANGED <<pending, config, disk, cacheVars, registryVars, last>>

\* _auto_disable: get_group_config entered
AutoDisableLock(t) ==
    /\ threads[t].pc = "ad_lock" /\ CanAcquire(t, "config")
    /\ threads' = [threads EXCEPT ![t] = [Acquired(@, "config") EXCEPT !.pc = "ad_get"]]
    /\ UNCHANGED <<pending, permVars, cacheVars, registryVars, last>>

\* `group_config.get("disabled_platforms", [])`: the list of the document
\* itself when the group has the key, a new list otherwise
AutoDisableGet(t) ==
    /\ threads[t].pc = "ad_get"
    /\ LET f == threads[t]
           field == IF DisablesPlatform(f.api_name)
                    THEN "disabled_platforms" ELSE "disabled_apis"
           group_config == get_group_config(config, f.group_id)
       IN  threads' = [threads EXCEPT ![t] =
              [Released(f) EXCEPT !.pc = "ad_append",
                   !.ref = [live |-> field \in DOMAIN group_config,
                            val |-> Get(group_config, field, <<>>)]]]
    /\ UNCHANGED <<pending, permVars, cacheVars, registryVars, last>>

\* mutant: the entry is appended without the membership test
AlreadyListedNever(list, entry) == FALSE

\* mutant: the entry always counts as listed, nothing is appended
AlreadyListedAlways(list, entry) == TRUE

\* `if platform not in disabled_platforms`
AlreadyListed(list, entry) == Contains(list, entry)

\* the membership test and the append, in place on the list object
AutoDisableAppend(t) ==
    /\ threads[t].pc = "ad_append"
    /\ LET f == threads[t]
           platformWide == DisablesPlatform(f.api_name)
           field == IF platformWide THEN "disabled_platforms" ELSE "disabled_apis"
           entry == IF platformWide THEN f.platform
                    ELSE ApiKey(f.platform, f.api_name)
           list == Append(f.ref.val, entry)
       IN  IF AlreadyListed(f.ref.val, entry)
           THEN /\ threads' = [threads EXCEPT ![t] = Returned(f, "none")]
                /\ UNCHANGED config
           ELSE /\ threads' = [threads EXCEPT ![t] =
                       [f EXCEPT !.pc = "ug_lock", !.ref.val = list,
                                 !.dp = IF platformWide THEN Given(list) ELSE Absent,
                                 !.da = IF platformWide THEN Absent ELSE Given(list)]]
                /\ config' = IF f.ref.live
                             THEN Put(config, "groups",
                                      Put(config["groups"], f.group_id,
                                          Put(config["groups"][f.group_id], field, list)))
                             ELSE config
    /\ UNCHANGED <<pending, disk, failure_count, cacheVars, registryVars, last>>

\* ---- ConfigManager.update_group_config ----
\* called by _auto_disable with the tracker's lock held
UpdateGroupConfigLock(t) ==
    /\ threads[t].pc = "ug_lock" /\ CanAcquire(t, "config")
    /\ threads' = [threads EXCEPT ![t] = [Acquired(@, "config") EXCEPT !.pc = "ug_save"]]
    /\ UNCHANGED <<pending, permVars, cacheVars, registryVars, last>>

\* called by an administrator
UpdateGroupConfigCall(t, disabled_platforms, disabled_apis) ==
    /\ threads[t].pc = "idle" /\ CanAcquire(t, "config")
    /\ threads' = [threads EXCEPT ![t] =
            [Entered("update_group_config", "ug_save", "config", "", "", ThreadScope)
                EXCEPT !.dp = disabled_platforms, !.da = disabled_apis]]
    /\ UNCHANGED <<pending, permVars, cacheVars, registryVars, last>>

\* the body: the sub-fields set, _save_config, reload_config; the caller
\* _auto_disable and record_failure return with it
UpdateGroupConfigSave(t) ==
    /\ threads[t].pc = "ug_save"
    /\ LET f == threads[t]
           r == update_group_config(config, f.group_id, f.dp, f.da)
       IN  /\ config' = r[1] /\ disk' = r[2]
           /\ threads' = [Orphaned(threads) EXCEPT ![t] = Returned(f, "none")]
    /\ UNCHANGED <<pending, failure_count, cacheVars, registryVars, last>>

\* ---- ConfigManager.update_platform_config ----
UpdatePlatformConfigCall(t) ==
    /\ threads[t].pc = "idle" /\ CanAcquire(t, "config")
    /\ threads' = [threads EXCEPT ![t] =
            Entered("update_platform_config", "up_save", "config",
                    ThreadPlatform, "", "")]
    /\ UNCHANGED <<pending, permVars, cacheVars, registryVars, last>>

UpdatePlatformConfigSave(t, kwargs) ==
    /\ threads[t].pc = "up_save"
    /\ LET r == update_platform_config(config, threads[t].platform, kwargs)
       IN  /\ config' = r[1] /\ disk' = r[2]
           /\ threads' = [Orphaned(threads) EXCEPT ![t] = IdleFrame]
    /\ UNCHANGED <<pending, failure_count, cacheVars, registryVars, last>>

\* ---- ConfigManager.reload_config (ConfigReloadHandler.on_modified) ----
ReloadConfigCall(t) ==
    /\ threads[t].pc = "idle" /\ CanAcquire(t, "config")
    /\ threads' = [threads EXCEPT ![t] =
            Entered("reload_config", "rl_load", "config", "", "", "")]
    /\ UNCHANGED <<pending, permVars, cacheVars, registryVars, last>>

ReloadConfigLoad(t) ==
    /\ threads[t].pc = "rl_load"
    /\ config' = LoadedConfig(disk) /\ disk' = DiskAfterLoad(disk)
    /\ threads' = [Orphaned(threads) EXCEPT ![t] = IdleFrame]
    /\ UNCHANGED <<pending, failure_count, cacheVars, registryVars, last>>

\* ---- ConfigManager.is_platform_enabled / is_api_enabled ----
EnabledCall(t, api_name) ==
    /\ threads[t].pc = "idle" /\ CanAcquire(t, "config")
    /\ threads' = [threads EXCEPT ![t] =
            [Entered("is_enabled", "en_read", "config",
                     ThreadPlatform, api_name, ThreadScope)
                EXCEPT !.reached = /\ threads[t].op = "record_failure"
                                   /\ threads[t].reached
                                   /\ threads[t].api_name = api_name]]
    /\ UNCHANGED <<pending, permVars, cacheVars, registryVars, last>>

\* the permission read a resolve makes for (scope, platform, api)
EnabledFor(cfg, group_id, platform, api_name) ==
    is_api_enabled(cfg, group_id, platform, api_name)

EnabledRead(t) ==
    /\ threads[t].pc = "en_read"
    /\ LET f == threads[t]
       IN  threads' = [threads EXCEPT ![t] =
              Returned(f, IF EnabledFor(config, f.group_id, f.platform, f.api_name)
                          THEN "true" ELSE "false")]
    /\ UNCHANGED <<pending, permVars, cacheVars, registryVars, last>>

\* ---- FailureTracker.reset_failure ----
ResetFailureLock(t, api_name) ==
    /\ threads[t].pc = "idle" /\ CanAcquire(t, "tracker")
    /\ threads' = [threads EXCEPT ![t] =
            Entered("reset_failure", "rs_del", "tracker",
                    ThreadPlatform, api_name, ThreadScope)]
    /\ UNCHANGED <<pending, permVars, cacheVars, registryVars, last>>

ResetFailureDelete(t) ==
    /\ threads[t].pc = "rs_del"
    /\ LET f == threads[t]
       IN  failure_count' = reset_failure(failure_count, f.platform, f.api_name, f.group_id)
    /\ threads' = [threads EXCEPT ![t] = IdleFrame]
    /\ UNCHANGED <<pending, config, disk, cacheVars, registryVars, last>>

\* ---- KeywordRegistry.find_matching_apis ----
FindMatchesLock(t) ==
    /\ threads[t].pc = "idle" /\ CanAcquire(t, "registry")
    /\ threads' = [threads EXCEPT ![t] =
            Entered("find_matching_apis", "fm_scan", "registry", "", "", "")]
    /\ UNCHANGED <<pending, permVars, cacheVars, registryVars, last>>

FindMatchesScan(t) ==
    /\ threads[t].pc = "fm_scan"
    /\ threads' = [threads EXCEPT ![t] = IdleFrame]
    /\ UNCHANGED <<pending, permVars, cacheVars, registryVars, last>>

\* ---- CacheManager.set_cache ----
\* the lock taken and the entry put in memory
SetCacheLock(t) ==
    /\ threads[t].pc = "idle" /\ CanAcquire(t, "cache")
    /\ cache' = set_cache(cache, files, now, ThreadKey[1], ThreadKey[2], ThreadKey[3],
                          ThreadPayload, TtlNone).cache
    /\ threads' = [threads EXCEPT ![t] =
            Entered("set_cache", "set_open", "cache", "", "", "")]
    /\ UNCHANGED <<pending, files, now, permVars, registryVars, last>>

\* _save_cache_to_disk: `open(cache_file, 'w')` creates or truncates the file
SetCacheOpen(t) ==
    /\ threads[t].pc = "set_open"
    /\ files' = Put(files, PathOf(ThreadKey), CorruptFile)
    /\ threads' = [threads EXCEPT ![t].pc = "set_dump"]
    /\ UNCHANGED <<pending, cache, now, permVars, registryVars, last>>

\* json.dump and close: the entry is in the file, unless the name was
\* unlinked since the open (the data then goes to a file without a name)
SetCacheDump(t) ==
    /\ threads[t].pc = "set_dump"
    /\ files' = IF PathOf(ThreadKey) \in DOMAIN files
                THEN _save_cache_to_disk(files, ThreadKey[1], ThreadKey[2],
                                         ThreadKey[3], cache[KeyOf(ThreadKey)])
                ELSE files
    /\ threads' = [threads EXCEPT ![t] = Returned(threads[t], "none")]
    /\ UNCHANGED <<pending, cache, now, permVars, registryVars, last>>

\* ---- CacheManager.has_cache ----
HasCacheLock(t) ==
    /\ threads[t].pc = "idle" /\ CanAcquire(t, "cache")
    /\ threads' = [threads EXCEPT ![t] =
            Entered("has_cache", "has_look", "cache", "", "", "")]
    /\ UNCHANGED <<pending, permVars, cacheVars, registryVars, last>>

HasCacheLook(t) ==
    /\ threads[t].pc = "has_look"
    /\ LET r == has_cache(cache, files, now, ThreadKey[1], ThreadKey[2], ThreadKey[3])
       IN  /\ cache' = r.cache /\ files' = r.files
           /\ threads' = [threads EXCEPT ![t] =
                  Returned(threads[t], IF r.ret THEN "true" ELSE "false")]
    /\ UNCHANGED <<pending, now, permVars, registryVars, last>>

\* ---- CacheManager.clear_cache ----
ClearCacheLock(t) ==
    /\ threads[t].pc = "idle" /\ CanAcquire(t, "cache")
    /\ threads' = [threads EXCEPT ![t] =
            Entered("clear_cache", "cc_clear", "cache", "", "", "")]
    /\ UNCHANGED <<pending, permVars, cacheVars, registryVars, last>>

ClearCacheClear(t) ==
    /\ threads[t].pc = "cc_clear"
    /\ cache' = EmptyFn /\ files' = EmptyFn
    /\ threads' = [threads EXCEPT ![t] = IdleFrame]
    /\ UNCHANGED <<pending, now, permVars, registryVars, last>>

\* ---- CacheManager.clear_expired ----
ClearExpiredLock(t) ==
    /\ threads[t].pc = "idle" /\ CanAcquire(t, "cache")
    /\ threads' = [threads EXCEPT ![t] =
            Entered("clear_expired", "ce_memory", "cache", "", "", "")]
    /\ UNCHANGED <<pending, permVars, cacheVars, registryVars, last>>

\* the memory pass; the `with` block ends with it
ClearExpiredMemory(t) ==
    /\ threads[t].pc = "ce_memory"
    /\ cache' = clear_expired(cache, files, now).cache
    /\ threads' = [threads EXCEPT ![t] = [Released(@) EXCEPT !.pc = "ce_read"]]
    /\ UNCHANGED <<pending, files, now, permVars, registryVars, last>>

\* the disk pass, one file: `json.load(f)` and the expiry test
ClearExpiredRead(t) ==
    /\ threads[t].pc = "ce_read"
    /\ LET cache_file == PathOf(ThreadKey)
           doomed == /\ cache_file \in DOMAIN files
                     /\ \/ files[cache_file].kind = "corrupt"
                        \/ IsExpired(now, files[cache_file].entry)
       IN  threads' = [threads EXCEPT ![t] =
              IF doomed THEN [@ EXCEPT !.pc = "ce_unlink"] ELSE IdleFrame]
    /\ UNCHANGED <<pending, permVars, cacheVars, registryVars, last>>

\* `cache_file.unlink()`, its failure swallowed
ClearExpiredUnlink(t) ==
    /\ threads[t].pc = "ce_unlink"
    /\ files' = IF PathOf(ThreadKey) \in DOMAIN files
                THEN Del(files, PathOf(ThreadKey)) ELSE files
    /\ threads' = [threads EXCEPT ![t] = IdleFrame]
    /\ UNCHANGED <<pending, cache, now, permVars, registryVars, last>>

\* the updates of an administrator: one of the scope's lists emptied
ThreadAdminUpdates == { <<Given(<<>>), Absent>>, <<Absent, Given(<<>>)>> }

\* the steps of the calls a resolve makes on its failure and success
\* paths, and of the watcher's reload
NextFailurePath ==
    \/ \E t \in Threads, a \in ApiIds : RecordFailureLock(t, a)
    \/ \E t \in Threads : RecordFailureCount(t)
    \/ \E t \in Threads : AutoDisableLock(t)
    \/ \E t \in Threads : AutoDisableGet(t)
    \/ \E t \in Threads : AutoDisableAppend(t)
    \/ \E t \in Threads : UpdateGroupConfigLock(t)
    \/ \E t \in Threads : UpdateGroupConfigSave(t)
    \/ \E t \in Threads : ReloadConfigCall(t)
    \/ \E t \in Threads : ReloadConfigLoad(t)
    \/ \E t \in Threads, a \in ApiIds : EnabledCall(t, a)
    \/ \E t \in Threads : EnabledRead(t)
    \/ \E t \in Threads, a \in ApiIds : ResetFailureLock(t, a)
    \/ \E t \in Threads : ResetFailureDelete(t)

SpecFailurePath == InitThreads /\ [][NextFailurePath]_vars

NextThreads ==
    \/ NextFailurePath
    \/ \E t \in Threads, u \in ThreadAdminUpdates :
          UpdateGroupConfigCall(t, u[1], u[2])
    \/ \E t \in Threads : UpdatePlatformConfigCall(t)
    \/ \E t \in Threads : UpdatePlatformConfigSave(t, [api_key |-> "k2"])
    \/ \E t \in Threads : FindMatchesLock(t)
    \/ \E t \in Threads : FindMatchesScan(t)
    \/ \E t \in Threads : SetCacheLock(t)
    \/ \E t \in Threads : SetCacheOpen(t)
    \/ \E t \in Threads : SetCacheDump(t)
    \/ \E t \in Threads : HasCacheLock(t)
    \/ \E t \in Threads : HasCacheLook(t)
    \/ \E t \in Threads : ClearCacheLock(t)
    \/ \E t \in Threads : ClearCacheClear(t)
    \/ \E t \in Threads : ClearExpiredLock(t)
    \/ \E t \in Threads : ClearExpiredMemory(t)
    \/ \E t \in Threads : ClearExpiredRead(t)
    \/ \E t \in Threads : ClearExpiredUnlink(t)

SpecThreads == InitThreads /\ [][NextThreads]_vars

(***************************************************************************)
(* Properties of the locking (checked under SpecThreads, SpecFailurePath)  *)
(***************************************************************************)
\* the lock a thread is about to acquire inside a call: _auto_disable's
\* get_group_config and update_group_config both enter the config lock
LockWanted(frame) ==
    IF frame.pc \in {"ad_lock", "ug_lock"} THEN "config" ELSE "none"

\* the thread is inside a call and cannot go on: its lock has another owner
Blocked(t) ==
    /\ LockWanted(threads[t]) \in Locks
    /\ ~CanAcquire(t, LockWanted(threads[t]))

\* an order of the component locks
LockRank(lock) ==
    CASE lock = "tracker" -> 1
      [] lock = "config" -> 2
      [] lock = "cache" -> 3
      [] lock = "registry" -> 4

\* the locks of a frame, as a set
HeldLocks(frame) == Elements(frame.held)

\* C23: no set of threads wait on each other's component locks (in every
\* non-empty set of blocked threads one waits for a lock whose owner is
\* outside the set), and every lock acquired while others are held ranks
\* above all of them in one fixed order of the locks, so the acquisition
\* order is acyclic.
C23_NoLockCycle ==
    /\ [](\A W \in SUBSET Threads :
             W # {} /\ (\A t \in W : Blocked(t)) =>
                 \E t \in W : \E u \in Threads \ W :
                     Holds(u, LockWanted(threads[t])) /\ ~Blocked(u))
    /\ [][\A t \in Threads :
             Len(threads'[t].held) > Len(threads[t].held) =>
                 \A lock \in HeldLocks(threads[t]) :
                     LockRank(lock) < LockRank(threads'[t].held[Len(threads'[t].held)])]_vars

\* a thread holds the tracker's lock and waits for the config lock, which
\* a thread that can go on owns
C23_Witness ==
    \E t \in Threads, u \in Threads :
        /\ Blocked(t) /\ Holds(t, "tracker")
        /\ Holds(u, "config") /\ ~Blocked(u)

\* C24: a thread never holds the locks of two different components.
C24_OneLockAtATime ==
    \A t \in Threads : Cardinality(HeldLocks(threads[t])) <= 1

\* the positions whose step reads, writes or deletes the configuration file
ConfigStoragePcs == {"ug_save", "up_save", "rl_load"}

\* the positions whose step reads, writes or deletes a cache file
CacheStoragePcs ==
    {"set_open", "set_dump", "has_look", "cc_clear", "ce_read", "ce_unlink"}

\* C25: a thread about to read, write or delete durable storage holds the
\* lock of the component that owns it, and so the file of a set_cache is in
\* place, whole, when the set_cache returns.
C25_StorageUnderLock ==
    /\ [](\A t \in Threads :
             /\ threads[t].pc \in ConfigStoragePcs => Holds(t, "config")
             /\ threads[t].pc \in CacheStoragePcs => Holds(t, "cache"))
    /\ [][\A t \in Threads :
             SetCacheDump(t) =>
                 /\ PathOf(ThreadKey) \in DOMAIN files'
                 /\ files'[PathOf(ThreadKey)].kind = "json"]_vars

\* the document denies (scope, platform, api): is_api_enabled is false,
\* and is_platform_enabled too when the API is "search"
Denies(doc, group_id, platform, api_name) ==
    /\ ~is_api_enabled(doc, group_id, platform, api_name)
    /\ DisablesPlatform(api_name) => ~is_platform_enabled(doc, group_id, platform)

\* the thread's last call was a record_failure that reached the threshold
\* for a scope, and it has returned
AutoDisabledBy(t) ==
    /\ threads[t].pc = "idle" /\ threads[t].op = "record_failure"
    /\ threads[t].reached

\* the thread's permission read follows its own record_failure that reached
\* the threshold for the same (scope, platform, api)
ReadsOwnDisable(t) == threads[t].op = "is_enabled" /\ threads[t].reached

\* C26: once a record_failure that reached the threshold for a scope has
\* returned, the in-memory and the persisted document both deny the
\* (scope, platform, api), up to and including the permission read the
\* same thread makes next, which returns false, whatever the other threads'
\* record_failure, reset_failure, permission reads and reloads do meanwhile.
C26_ReadYourWrites ==
    \A t \in Threads :
        /\ AutoDisabledBy(t) \/ ReadsOwnDisable(t) =>
              /\ Denies(config, threads[t].group_id, threads[t].platform,
                        threads[t].api_name)
              /\ disk.kind = "ok"
              /\ Denies(disk.doc, threads[t].group_id, threads[t].platform,
                        threads[t].api_name)
        /\ ReadsOwnDisable(t) /\ threads[t].pc = "idle" => threads[t].ret = "false"

\* a thread read the permission of an API after its own auto-disable of it
C26_Witness ==
    \E t \in Threads :
        /\ ReadsOwnDisable(t) /\ threads[t].pc = "idle" /\ threads[t].ret = "false"
        /\ threads[t].api_name = "xyz"

\* the entries auto-disable adds for the calls of the threads
AutoDisableEntries ==
    {ThreadPlatform} \cup {ApiKey(ThreadPlatform, a) : a \in ApiIds}

\* the scope's two lists in a document, one after the other
ScopeLists(doc, group_id) ==
    Get(get_group_config(doc, group_id), "disabled_platforms", <<>>)
        \o Get(get_group_config(doc, group_id), "disabled_apis", <<>>)

\* C27: in the in-memory and in the persisted document, the scope's
\* disabled_platforms and disabled_apis lists hold every entry auto-disable
\* adds at most once, also when record_failure runs again above the
\* threshold.
C27_AutoDisableOnce ==
    \A entry \in AutoDisableEntries :
        /\ Occurrences(ScopeLists(config, ThreadScope), entry) <= 1
        /\ disk.kind = "ok" => Occurrences(ScopeLists(disk.doc, ThreadScope), entry) <= 1

\* a counter is above the threshold, both threads went through an
\* auto-disable of that API, and the entry is listed
C27_Witness ==
    /\ get_failure_count(failure_count, ThreadPlatform, "search", ThreadScope)
           > failure_threshold
    /\ \A t \in Threads : AutoDisabledBy(t) /\ threads[t].api_name = "search"
    /\ Occurrences(ScopeLists(config, ThreadScope), ThreadPlatform) = 1

(***************************************************************************)
(* Frame of auto-disable (checked under SpecTracker)                       *)
(***************************************************************************)
\* the document outside the lists of group g: the global and platforms
\* sections and every other group
SameOutsideGroup(old, new, g) ==
    /\ Get(new, "global", EmptyFn) = Get(old, "global", EmptyFn)
    /\ Get(new, "platforms", EmptyFn) = Get(old, "platforms", EmptyFn)
    /\ \A h \in (DOMAIN Get(old, "groups", EmptyFn)
                   \cup DOMAIN Get(new, "groups", EmptyFn)) \ {g} :
          /\ h \in DOMAIN Get(old, "groups", EmptyFn)
          /\ h \in DOMAIN Get(new, "groups", EmptyFn)
          /\ new["groups"][h] = old["groups"][h]

\* the permission reads of every scope other than g, the absent one included
SamePermissionsElsewhere(old, new, g) ==
    \A T \in Scopes \ {g} : \A q \in Platforms :
        /\ is_platform_enabled(new, T, q) = is_platform_enabled(old, T, q)
        /\ \A api \in ApiIds :
              is_api_enabled(new, T, q, api) = is_api_enabled(old, T, q, api)

\* C28: a record_failure for (p, a, S), reaching the threshold or not,
\* changes of the document at most one list of scope S: disabled_platforms
\* when a is "search", disabled_apis otherwise (nothing when S is the absent
\* scope); the global section, the platforms section and every other scope
\* are as before, in memory and on disk, and so are is_platform_enabled and
\* is_api_enabled for every other scope and for the absent scope.
C28_AutoDisableConfined ==
    [][\A t \in FailTriples :
          RecordFailure(t[1], t[2], t[3]) =>
              /\ SameOutsideGroup(config, config', t[3])
              /\ SameOutsideGroup(disk.doc, disk'.doc, t[3])
              /\ SamePermissionsElsewhere(config, config', t[3])
              /\ ~Truthy(t[3]) => config' = config /\ disk' = disk
              /\ IF DisablesPlatform(t[2])
                 THEN GroupDisabledApis(config', t[3]) = GroupDisabledApis(config, t[3])
                 ELSE GroupDisabledPlatforms(config', t[3])
                          = GroupDisabledPlatforms(config, t[3])]_vars

\* p was auto-disabled for g1 next to a g2 that lists other things, and p
\* is still enabled for the absent scope
C28_Witness ==
    /\ get_failure_count(failure_count, "p", "search", "g1") = failure_threshold
    /\ Contains(GroupDisabledPlatforms(config, "g1"), "p")
    /\ "g2" \in DOMAIN Get(config, "groups", EmptyFn)
    /\ is_platform_enabled(config, None, "p")

(***************************************************************************)
(* The two copies of the configuration document (checked under SpecThreads)*)
(***************************************************************************)
\* the thread is inside an operation of the Permission Store that changes
\* the document: _auto_disable from its read of the group on,
\* update_group_config, update_platform_config, reload_config
StoreBusy(t) ==
    threads[t].pc \in {"ad_lock", "ad_get", "ad_append", "ug_lock", "ug_save",
                       "up_save", "rl_load"}

\* C29: whenever no thread is inside update_group_config,
\* update_platform_config, an auto-disable or reload_config, the
\* configuration file is readable and holds exactly the in-memory document.
C29_MemoryEqualsDisk ==
    (\A t \in Threads : ~StoreBusy(t)) => disk.kind = "ok" /\ config = disk.doc

\* no operation is in progress after an auto-disable of p for g1 and an
\* update_platform_config
C29_Witness ==
    /\ \A t \in Threads : ~StoreBusy(t)
    /\ Contains(GroupDisabledPlatforms(config, ThreadScope), ThreadPlatform)
    /\ get_platform_config(config, ThreadPlatform) = [api_key |-> "k2"]

(***************************************************************************)
(* Selection (checked under SpecChecks)                                    *)
(***************************************************************************)
\* steps 3-4 for a request: the triples find_matching_apis returns for the
\* query among the platforms of step 2 (it is not called when step 2 keeps
\* none), and those of them is_api_enabled accepts for the scope
MatchedFor(query, media_type, group_id) ==
    LET type_filtered_platforms == TypeFilteredPlatforms(config, media_type, group_id)
    IN  IF type_filtered_platforms = <<>> THEN {}
        ELSE Elements(find_matching_apis(platform_apis, similarity_threshold, query,
                                         Given(type_filtered_platforms), media_type))
SurvivingFor(query, media_type, group_id) ==
    { m \in MatchedFor(query, media_type, group_id) :
        is_api_enabled(config, group_id, m[1], m[2]) }

\* the adapter call of a request on a candidate
CallOn(query, media_type, group_id, m) ==
    [query |-> query, media_type |-> media_type, group_id |-> group_id,
     platform |-> m[1], api_id |-> m[2]]

\* step 5 for a request, in get_media and in _get_media_internal: the
\* candidates random.choice may return
SelectableFor(query, media_type, group_id) ==
    LET enabled_apis ==
            Candidates(config, platform_apis, all_keywords, similarity_threshold,
                       query, media_type, group_id).apis
        internal ==
            CandidatesInternal(config, platform_apis, all_keywords,
                               similarity_threshold, query, media_type, group_id).apis
    IN  { m \in Elements(enabled_apis) \cap Elements(internal) :
            /\ \E i \in Choices(enabled_apis) : enabled_apis[i] = m
            /\ \E i \in Choices(internal) : internal[i] = m }

\* C30: the adapter call a get_media starts is on a (platform, api) that
\* find_matching_apis returned for its query and that is_api_enabled
\* accepted for its scope; and every such surviving candidate is one that
\* the random choice of step 5 may return.
C30_SelectionSoundness ==
    /\ [][\A call \in pending' \ pending :
             \E m \in SurvivingFor(call.query, call.media_type, call.group_id) :
                 call = CallOn(call.query, call.media_type, call.group_id, m)]_vars
    /\ [](\A query \in ResolveQueries, media_type \in ChecksMediaTypes,
             group_id \in ResolveScopes :
             ~RaisesAttributeError(config) =>
                 SurvivingFor(query, media_type, group_id)
                     \subseteq SelectableFor(query, media_type, group_id))

\* an adapter call runs on a candidate that was not the only survivor of
\* its request
C30_Witness ==
    \E call \in pending :
        /\ Cardinality(SurvivingFor(call.query, call.media_type, call.group_id)) > 1
        /\ \E m \in SurvivingFor(call.query, call.media_type, call.group_id) :
               call = CallOn(call.query, call.media_type, call.group_id, m)

(***************************************************************************)
(* One pass per request (checked under SpecResolve)                        *)
(***************************************************************************)
\* C31: a get_media starts at most one adapter call, and none when one of
\* the checks of steps 1 to 4 is empty; the step in which an adapter call
\* ends, failed or not, returns to the caller and starts no other call.
C31_OnePass ==
    [][/\ Cardinality(pending' \ pending) <= 1
       /\ pending' \ pending # {} => pending \ pending' = {} /\ last' = last
       /\ \A query \in ResolveQueries, media_type \in ResolveMediaTypes,
             group_id \in ResolveScopes :
             /\ BeginResolve(query, media_type, group_id)
             /\ FirstEmptyCheck(group_id, media_type, query) # {""}
             => pending' = pending /\ IsError(last'.ret)
       /\ \A call \in pending \ pending' :
             /\ pending' = pending \ {call}
             /\ last'.op = "resolve" /\ last'.call = call]_vars

\* a get_media returned the error of its failed adapter call although
\* another enabled candidate matched its query
C31_Witness ==
    /\ last.op = "resolve" /\ "failed" \in DOMAIN last /\ last.failed
    /\ IsError(last.ret) /\ pending = {}
    /\ Cardinality(SurvivingFor(last.call.query, last.call.media_type,
                                last.call.group_id)) > 1

(***************************************************************************)
(* The adapter of the selected platform (checked under SpecChecks)         *)
(***************************************************************************)
\* C32: every adapter call that starts is on a platform that step 2 kept
\* for the request, hence one with an adapter instance, and no call of the
\* resolver returns the error of step 6, "platform does not exist".
C32_PlatformMissingUnreachable ==
    /\ [][\A call \in pending' \ pending :
             /\ Contains(TypeFilteredPlatforms(config, call.media_type, call.group_id),
                         call.platform)
             /\ get_platform(call.platform) # None]_vars
    /\ []("ret" \in DOMAIN last /\ "error" \in DOMAIN last.ret
             => last.ret.error # "PlatformMissing")

\* an adapter call runs while a platform without instance is configured,
\* available for the scope of the call and has a keyword matching its query
C32_Witness ==
    \E call \in pending :
        /\ "r" \in get_available_platforms(config, call.group_id)
        /\ get_platform("r") = None
        /\ \E m \in Elements(find_matching_apis(platform_apis, similarity_threshold,
                                                call.query, Absent, call.media_type)) :
               m[1] = "r"

(***************************************************************************)
(* The circuit breaker (checked under SpecResolve, which has no            *)
(* administrative update and no edit of the document)                      *)
(***************************************************************************)
\* C33: in a run without administrative update, for the group scope g1:
\* an API whose failure count has reached the threshold is disabled for g1;
\* no get_media of a scope starts a call of an API that is disabled for that
\* scope; an API disabled for g1 stays disabled; and every API stays
\* enabled for the global scope, whose calls can still select it.
C33_CircuitBreaker ==
    /\ [](\A platform \in Platforms, api_id \in ApiIds :
             get_failure_count(failure_count, platform, api_id, "g1") >= failure_threshold
             => ~is_api_enabled(config, "g1", platform, api_id))
    /\ [][\A call \in pending' \ pending :
             is_api_enabled(config, call.group_id, call.platform, call.api_id)]_vars
    /\ [][\A platform \in Platforms, api_id \in ApiIds :
             ~is_api_enabled(config, "g1", platform, api_id)
             => ~is_api_enabled(config', "g1", platform, api_id)]_vars
    /\ [](\A platform \in Platforms, api_id \in ApiIds :
             is_api_enabled(config, None, platform, api_id))

\* after three failed calls of an API for g1 (the third one answered the
\* last get_media of g1), a call of the same API runs for the global scope
C33_Witness ==
    \E call \in pending :
        /\ call.group_id = None
        /\ get_failure_count(failure_count, call.platform, call.api_id, "g1")
               = failure_threshold
        /\ ~is_api_enabled(config, "g1", call.platform, call.api_id)
        /\ call.platform \notin get_available_platforms(config, "g1")

(***************************************************************************)
(* The cached fallback (checked under SpecResolve)                         *)
(***************************************************************************)
\* the call before stored the payload under the cache key the call reads
SameCacheKey(call1, call2) ==
    _get_cache_key(call1.query, call1.media_type, call1.platform)
        = _get_cache_key(call2.query, call2.media_type, call2.platform)

\* C34: when a get_media call whose adapter call failed returns the cached
\* payload, and the get_media call completed just before it was the
\* successful one that stored that cache key, then the two calls were made
\* for the same scope and through the same API.
C34_FallbackOwnScope ==
    [][/\ last.op = "resolve" /\ "failed" \in DOMAIN last /\ ~last.failed
       /\ last' # last /\ last'.op = "resolve" /\ "failed" \in DOMAIN last'
       /\ last'.failed /\ ~IsError(last'.ret)
       /\ SameCacheKey(last.call, last'.call)
       => /\ last'.call.group_id = last.call.group_id
          /\ last'.call.api_id = last.call.api_id]_vars

(***************************************************************************)
(* Isolation of the cache keys (checked under SpecCache, whose two keys    *)
(* have queries with the same sanitized directory name)                    *)
(***************************************************************************)
\* the file of key k holds a record that set_cache wrote for k
PersistedFor(f, k) ==
    /\ PathOf(k) \in DOMAIN f /\ f[PathOf(k)].kind = "json"
    /\ f[PathOf(k)].entry.query = k[1]

\* get_cache or has_cache of key k answers from the file (k is not in memory)
AnswersFromFile(k) ==
    /\ last'.op \in {"get", "has"} /\ last'.key = k
    /\ KeyOf(k) \notin DOMAIN cache
    /\ IF last'.op = "get" THEN last'.ret # NoData ELSE last'.ret

\* C35: a get_cache or has_cache of a key that is not in memory reports
\* data only when the file it reads was written by set_cache for that key;
\* and a step on one key (a set_cache, or a has_cache or get_cache that
\* evicts it) leaves the record persisted for every other key in place.
C35_KeyIsolation ==
    /\ [][\A k \in CacheKeys : AnswersFromFile(k) => PersistedFor(files, k)]_vars
    /\ [][\A k \in CacheKeys : \A other \in CacheKeys \ {k} :
             /\ last'.op \in {"set", "get", "has"} /\ last'.key = k
             /\ PersistedFor(files, other)
             => /\ PersistedFor(files', other)
                /\ files'[PathOf(other)] = files[PathOf(other)]]_vars

(***************************************************************************)
(* SpecAdminRace: the failure path of two threads while an administrator   *)
(* writes entries to the lists of the same scope                           *)
(***************************************************************************)
\* update_group_config as the administrator calls it: platform "q" or the
\* API "q:xyz" disabled for the scope
AdminWrites == { <<Given(<<"q">>), Absent>>, <<Absent, Given(<<"q:xyz">>)>> }

NextAdminRace ==
    \/ NextFailurePath
    \/ \E t \in Threads, u \in AdminWrites : UpdateGroupConfigCall(t, u[1], u[2])

SpecAdminRace == InitThreads /\ [][NextAdminRace]_vars

\* the update_group_config that _auto_disable of thread t calls saves
AutoDisableSaves(t) ==
    /\ threads[t].pc = "ug_save" /\ threads[t].op = "record_failure"
    /\ threads'[t].pc = "idle"

\* C36: the save that ends an auto-disable for a scope keeps every entry
\* the scope's lists hold at that moment, those a concurrent
\* update_group_config wrote after the auto-disable read its list included,
\* in the in-memory document and in the persisted one.
C36_AutoDisableAtomic ==
    [][\A t \in Threads : AutoDisableSaves(t) =>
          /\ Elements(ScopeLists(config, ThreadScope))
                \subseteq Elements(ScopeLists(config', ThreadScope))
          /\ disk.kind = "ok" /\ disk'.kind = "ok"
                => Elements(ScopeLists(disk.doc, ThreadScope))
                      \subseteq Elements(ScopeLists(disk'.doc, ThreadScope))]_vars

(***************************************************************************)
(* SpecKeys: the Failure Tracker called with a tenant named "global" and   *)
(* with names that contain ":"                                             *)
(***************************************************************************)
\* the (platform, api, scope) triples of the calls
KeyTriples ==
    { <<"p", "search", None>>, <<"p", "search", "global">>,
      <<"p:x", "y", "g1">>, <<"p", "x:y", "g1">>, <<"q", "search", "g1">> }

NextKeys ==
    \/ \E t \in KeyTriples : RecordFailure(t[1], t[2], t[3])
    \/ \E t \in KeyTriples : ResetFailure(t[1], t[2], t[3])

SpecKeys == InitTracker /\ [][NextKeys]_vars

\* C37: a record_failure or a reset_failure for one (platform, api, scope)
\* triple leaves get_failure_count of every other triple as it was.
C37_CountersIndependent ==
    [][\A t \in KeyTriples :
          \/ RecordFailure(t[1], t[2], t[3])
          \/ ResetFailure(t[1], t[2], t[3])
          => \A u \in KeyTriples \ {t} :
                get_failure_count(failure_count', u[1], u[2], u[3])
                    = get_failure_count(failure_count, u[1], u[2], u[3])]_vars

(***************************************************************************)
(* The counter after an auto-disable (checked under SpecTracker)           *)
(***************************************************************************)
\* C38: a record_failure that changes the document leaves its counter at
\* or above the threshold; a counter at or above the threshold stays there
\* in every step but a reset_failure of its key; and a record_failure on
\* such a counter of a group scope leaves the API disabled for the scope,
\* also when an administrator had enabled it again in between.
C38_CounterKeptAfterDisable ==
    [][\A t \in FailTriples :
          LET before == get_failure_count(failure_count, t[1], t[2], t[3])
              after == get_failure_count(failure_count', t[1], t[2], t[3])
          IN  /\ RecordFailure(t[1], t[2], t[3]) /\ config' # config
                    => after >= failure_threshold
              /\ before >= failure_threshold /\ ~ResetFailure(t[1], t[2], t[3])
                    => after >= failure_threshold
              /\ (/\ RecordFailure(t[1], t[2], t[3])
                  /\ before >= failure_threshold /\ Truthy(t[3]))
                    => ~is_api_enabled(config', t[3], t[1], t[2])]_vars

\* an administrator has enabled p for g1 again while the counter of
\* p's "search" for g1 is at the threshold
C38_Witness ==
    /\ get_failure_count(failure_count, "p", "search", "g1") = failure_threshold
    /\ is_api_enabled(config, "g1", "p", "search")
    /\ ~Contains(GroupDisabledPlatforms(disk.doc, "g1"), "p")

(***************************************************************************)
(* The API name the resolver reports (checked under SpecResolve)           *)
(***************************************************************************)
\* the entries a list of the new document has and that of the old one lacks
AddedTo(old, new) == Elements(new) \ Elements(old)

\* C39: when a get_media call returns from its adapter call, the api_id of
\* the call is the one of a registry entry of its platform, only the
\* failure count under (platform, that api_id, scope) changes, the platform
\* is added to a group's disabled_platforms only if that api_id is "search"
\* and the group is the call's scope, and otherwise nothing but
\* "platform:api_id" is added to the disabled_apis of the call's scope.
C39_ReportedApiId ==
    [][\A call \in pending \ pending' :
          /\ \E entry \in RegisteredEntries :
                entry[1] = call.platform /\ entry[3] = call.api_id
          /\ \A key \in (DOMAIN failure_count \cup DOMAIN failure_count')
                         \ {FailureKeyOf(call)} :
                /\ key \in DOMAIN failure_count /\ key \in DOMAIN failure_count'
                /\ failure_count'[key] = failure_count[key]
          /\ \A g \in GroupIds :
                /\ AddedTo(GroupDisabledPlatforms(config, g),
                           GroupDisabledPlatforms(config', g))
                      \subseteq IF call.api_id = "search" /\ call.group_id = g
                                THEN {call.platform} ELSE {}
                /\ AddedTo(GroupDisabledApis(config, g), GroupDisabledApis(config', g))
                      \subseteq IF call.api_id # "search" /\ call.group_id = g
                                THEN {ApiKey(call.platform, call.api_id)} ELSE {}]_vars

\* the third failure of q's API "xyz" for g1 has put "q:xyz" into the
\* disabled_apis of g1 and left its disabled_platforms without q
C39_Witness ==
    /\ last.op = "resolve" /\ "call" \in DOMAIN last /\ last.failed
    /\ last.call.api_id = "xyz" /\ last.call.group_id = "g1"
    /\ last.count = failure_threshold - 1
    /\ Contains(GroupDisabledApis(config, "g1"), "q:xyz")
    /\ ~Contains(GroupDisabledPlatforms(config, "g1"), "q")

(***************************************************************************)
(* An adapter call that returns no result (checked under SpecResolve)      *)
(***************************************************************************)
\* what the failure path leaves behind, but for the returned value
FailureEffects(r) == <<r.cache, r.files, r.failure_count, r.config, r.disk>>

\* C40: when the adapter call of a get_media returns an empty list, the
\* failure count of (platform, api_id, scope) grows by one and, once at the
\* threshold for a group scope, the API is disabled for it; no cache file is
\* written or changed and no payload enters the memory but the one of a
\* file; the call returns the unexpired payload cached under its key if
\* there is one, else an error; and the state it leaves is the one a
\* raised exception leaves.
C40_EmptyResultIsFailure ==
    [][\A call \in pending :
          CompleteResolve(call, Results(<<>>)) =>
            LET count == Get(failure_count, FailureKeyOf(call), 0) + 1
                key == KeyOf(CacheKeyOf(call))
                path == PathOf(CacheKeyOf(call))
            IN  /\ failure_count' = Put(failure_count, FailureKeyOf(call), count)
                /\ count >= failure_threshold /\ Truthy(call.group_id)
                      => ~is_api_enabled(config', call.group_id,
                                         call.platform, call.api_id)
                /\ \A x \in DOMAIN files' : x \in DOMAIN files /\ files'[x] = files[x]
                /\ \A k \in DOMAIN cache' :
                      \/ k \in DOMAIN cache /\ cache'[k] = cache[k]
                      \/ k = key /\ path \in DOMAIN files
                           /\ cache'[k] = files[path].entry
                /\ last'.failed
                /\ IF Unexpired(CacheKeyOf(call))
                   THEN last'.ret = EntryOf(CacheKeyOf(call)).data
                   ELSE last'.ret = Error("ApiCallFailed", "NoResults")
                /\ FailureEffects(OnFailure(cache, files, now, failure_count, config,
                                            disk, call, Results(<<>>)))
                      = FailureEffects(OnFailure(cache, files, now, failure_count,
                                                 config, disk, call, Raised("timeout")))]_vars

\* the third call in a row that returned no result, for g1: it returned the
\* error, nothing is cached, and its API is disabled for g1
C40_Witness ==
    /\ last.op = "resolve" /\ "call" \in DOMAIN last /\ last.failed
    /\ last.ret = Error("ApiCallFailed", "NoResults")
    /\ last.call.group_id = "g1" /\ last.count = failure_threshold - 1
    /\ failure_count[FailureKeyOf(last.call)] = failure_threshold
    /\ ~is_api_enabled(config, "g1", last.call.platform, last.call.api_id)
    /\ cache = EmptyFn /\ files = EmptyFn
====
